---- MODULE Spec2Model ----
(***************************************************************************)
(* Model of the completion pipeline of the AI code autocompletion          *)
(* extension: CompletionProvider (single-flight guard, response cache,     *)
(* fingerprinting), APIClient (dispatch and feedback fingerprint) and the  *)
(* global counters of StatisticsManager.                                   *)
(*                                                                         *)
(* JavaScript runs the extension host on one cooperative thread: the code  *)
(* of a handler between two awaits is one atomic step.  An invocation of   *)
(* provideCompletionItems therefore is one step (Trigger) up to its return *)
(* or up to `await getSuggestions`, and one step (Resolve) from the        *)
(* settlement of that promise to the return.                               *)
(***************************************************************************)
EXTENDS Integers, Sequences, FiniteSets, TLC

\* ------------------------------------------------------------------ bounds
MaxInv == 2             \* invocation slots that may overlap
MaxTriggers == 3        \* trigger events in a run of Spec
MaxClearCommands == 1   \* clear-cache commands in a run of ClearSpec
MaxFillTriggers == 103  \* trigger events in a run of CacheSpec
MaxFillHits == 2        \* cache hits in a run of CacheSpec
MaxFillDropped == 1     \* dropped triggers in a run of CacheSpec

\* ------------------------------------------------------- program constants
MaxCacheSize == 100     \* cleanupCache: if (this.cache.size > 100)
EvictCount == 50        \* cleanupCache: keys().slice(0, 50)
HashTailLines == 10     \* generateContextHash: previousLines.slice(-10)

Invs == 1..MaxInv

\* JavaScript's undefined
Undefined == "<undefined>"
\* a suggestion text that is not a string (text.split is not a function)
NotAString == <<"<not-a-string>">>

\* ----------------------------------------------------------------- helpers
Min(a, b) == IF a < b THEN a ELSE b
Max(a, b) == IF a > b THEN a ELSE b

\* Array.prototype.slice(-n): the last n elements (all of them when shorter)
SliceLast(s, n) == SubSeq(s, Max(1, Len(s) - n + 1), Len(s))

\* Array.prototype.slice(0, n)
SliceFirst(s, n) == SubSeq(s, 1, Min(n, Len(s)))

\* JSON.stringify, as the sequence of tokens of the text it produces: the
\* properties in source order, a property whose value is undefined left out
\* a string-valued property
JsonString(k, v) == IF v = Undefined THEN <<>> ELSE <<k, "\"", v>>

\* a number-valued property
JsonNumber(k, n) == <<k, ToString(n)>>

\* a property holding an array of strings
JsonArray(k, a) == <<k, "[">> \o a \o <<"]">>

\* a property holding null (<<>>) or an object (<<tokens of its properties>>)
JsonObject(k, o) == IF o = <<>> THEN <<k, "null">> ELSE <<k, "{">> \o o[1] \o <<"}">>

\* crypto.createHash('md5').update(s).digest('hex'): a function of s alone,
\* taken to be collision-free
Md5(s) == <<"md5", s>>

\* ------------------------------------------------- language table (provider)
\* CompletionProvider.initializeLanguageConfigs: the fields the pipeline reads
DefaultConfigs ==
  [ python     |-> [contextWindow |-> 2048, commentStyle |-> "#",  indentStyle |-> "spaces", indentSize |-> 4],
    javascript |-> [contextWindow |-> 1536, commentStyle |-> "//", indentStyle |-> "spaces", indentSize |-> 2],
    typescript |-> [contextWindow |-> 1536, commentStyle |-> "//", indentStyle |-> "spaces", indentSize |-> 2],
    java       |-> [contextWindow |-> 1800, commentStyle |-> "//", indentStyle |-> "spaces", indentSize |-> 4],
    cpp        |-> [contextWindow |-> 1800, commentStyle |-> "//", indentStyle |-> "spaces", indentSize |-> 4],
    c          |-> [contextWindow |-> 1800, commentStyle |-> "//", indentStyle |-> "spaces", indentSize |-> 4],
    go         |-> [contextWindow |-> 1600, commentStyle |-> "//", indentStyle |-> "tabs",   indentSize |-> 1],
    rust       |-> [contextWindow |-> 1800, commentStyle |-> "//", indentStyle |-> "spaces", indentSize |-> 4] ]

\* ----------------------------------------- settings (ConfigurationManager)
\* a setting value with its JavaScript type; temperature, topP and
\* repetitionPenalty are written in hundredths
Num(n) == <<"number", n>>
Str(s) == <<"string", s>>
IsNumber(v) == v[1] = "number"
IsString(v) == v[1] = "string"

\* the object {}
EmptyObject == [k \in {} |-> Num(0)]

\* the section without any setting made by the user
NoSettings == [values |-> EmptyObject, languages |-> EmptyObject]

\* WorkspaceConfiguration.get(key, defaultValue) on a snapshot of the section:
\* values holds the settings the user has made, languages the value of
\* 'languages' ({} when not set), an entry being <<>> for null and <<object>>
\* otherwise
Get(configuration, key, defaultValue) ==
  IF key \in DOMAIN configuration.values THEN configuration.values[key] ELSE defaultValue

\* ConfigurationManager.getLanguageConfig: languageSettings[language] || {}
getLanguageConfig(configuration, language) ==
  LET languageSettings == configuration.languages
  IN IF language \in DOMAIN languageSettings /\ languageSettings[language] # <<>>
     THEN languageSettings[language][1]
     ELSE EmptyObject

\* the override of a field of a language when it has the type asked for
HasOverride(configuration, language, field, type) ==
  /\ language # ""
  /\ field \in DOMAIN getLanguageConfig(configuration, language)
  /\ getLanguageConfig(configuration, language)[field][1] = type

\* a resolver that asks the global value first
getMaxSuggestions_globalFirst(configuration, language) ==
  IF "maxSuggestions" \in DOMAIN configuration.values
  THEN configuration.values["maxSuggestions"]
  ELSE IF HasOverride(configuration, language, "maxSuggestions", "number")
  THEN getLanguageConfig(configuration, language)["maxSuggestions"]
  ELSE Num(3)

\* ConfigurationManager.getMaxSuggestions
getMaxSuggestions(configuration, language) ==
  IF HasOverride(configuration, language, "maxSuggestions", "number")
  THEN getLanguageConfig(configuration, language)["maxSuggestions"]
  ELSE Get(configuration, "maxSuggestions", Num(3))

\* ConfigurationManager.getContextWindow
getContextWindow(configuration, language) ==
  IF HasOverride(configuration, language, "contextWindow", "number")
  THEN getLanguageConfig(configuration, language)["contextWindow"]
  ELSE Get(configuration, "contextWindow", Num(1024))

\* ConfigurationManager.getIndentStyle: the override when it is 'spaces' or
\* 'tabs', else defaultIndentStyles[language] || 'spaces'
getIndentStyle(configuration, language) ==
  IF /\ HasOverride(configuration, language, "indentStyle", "string")
     /\ getLanguageConfig(configuration, language)["indentStyle"][2] \in {"spaces", "tabs"}
  THEN getLanguageConfig(configuration, language)["indentStyle"]
  ELSE IF language = "go" THEN Str("tabs") ELSE Str("spaces")

\* ConfigurationManager.getIndentSize: the numeric override, else
\* defaultIndentSizes[language] || 4
getIndentSize(configuration, language) ==
  IF HasOverride(configuration, language, "indentSize", "number")
  THEN getLanguageConfig(configuration, language)["indentSize"]
  ELSE CASE language \in {"python", "java", "cpp", "c", "c#", "rust", "php"} -> Num(4)
         [] language \in {"javascript", "typescript", "ruby", "html", "css", "sql"} -> Num(2)
         [] language = "go" -> Num(1)
         [] OTHER -> Num(4)

\* the URLs of the settings below with what new URL(url).protocol gives for
\* them; Undefined where the constructor throws
UrlProtocol ==
  [ u \in {"http://localhost:8000", "https://api.example.com", "ftp://host", "localhost", ""} |->
      CASE u = "http://localhost:8000" -> "http:"
        [] u = "https://api.example.com" -> "https:"
        [] u = "ftp://host" -> "ftp:"
        [] OTHER -> Undefined ]

\* ConfigurationManager.isValidUrl: the throw of the constructor is caught
isValidUrl(url) == UrlProtocol[url] \in {"http:", "https:"}

\* value < n and value > n of JavaScript for the setting values of this
\* model: a string that is no numeral converts to NaN and compares false
Less(v, n) == IsNumber(v) /\ v[2] < n
Greater(v, n) == IsNumber(v) /\ v[2] > n

validModels == {"codegpt", "codebert", "auto"}

\* the checks of the general numeric ranges, in the order of the code
GeneralChecks ==
  << [key |-> "maxSuggestions", default |-> Num(3), low |-> 1, high |-> 10,
      message |-> <<"General max suggestions", " must be between 1 and 10.">>],
     [key |-> "temperature", default |-> Num(70), low |-> 0, high |-> 200,
      message |-> <<"General temperature", " must be between 0.0 and 2.0.">>],
     [key |-> "maxContextLines", default |-> Num(50), low |-> 10, high |-> 200,
      message |-> <<"General max context lines", " must be between 10 and 200.">>],
     [key |-> "topP", default |-> Num(90), low |-> 0, high |-> 100,
      message |-> <<"General top_p", " must be between 0.0 and 1.0.">>],
     [key |-> "topK", default |-> Num(50), low |-> 1, high |-> 100,
      message |-> <<"General top_k", " must be between 1 and 100.">>],
     [key |-> "repetitionPenalty", default |-> Num(110), low |-> 50, high |-> 200,
      message |-> <<"General repetition penalty", " must be between 0.5 and 2.0.">>],
     [key |-> "contextWindow", default |-> Num(1024), low |-> 256, high |-> 4096,
      message |-> <<"General context window", " must be between 256 and 4096.">>] >>

\* the checks of the numeric ranges of a language entry, in the order of the
\* code up to the model check
LanguageChecks ==
  << [key |-> "maxSuggestions", low |-> 1, high |-> 10,
      subject |-> "Max suggestions for '", range |-> "' must be between 1 and 10."],
     [key |-> "temperature", low |-> 0, high |-> 200,
      subject |-> "Temperature for '", range |-> "' must be between 0.0 and 2.0."],
     [key |-> "maxContextLines", low |-> 10, high |-> 200,
      subject |-> "Max context lines for '", range |-> "' must be between 10 and 200."],
     [key |-> "topP", low |-> 0, high |-> 100,
      subject |-> "Top_p for '", range |-> "' must be between 0.0 and 1.0."],
     [key |-> "topK", low |-> 1, high |-> 100,
      subject |-> "Top_k for '", range |-> "' must be between 1 and 100."],
     [key |-> "repetitionPenalty", low |-> 50, high |-> 200,
      subject |-> "Repetition penalty for '", range |-> "' must be between 0.5 and 2.0."],
     [key |-> "contextWindow", low |-> 256, high |-> 4096,
      subject |-> "Context window for '", range |-> "' must be between 256 and 4096."] >>

\* the check of indentSize, made after those of model and indentStyle
IndentSizeCheck ==
  [key |-> "indentSize", low |-> 1, high |-> 8,
   subject |-> "Indent size for '", range |-> "' must be between 1 and 8."]

\* langConfig[key] !== undefined && (langConfig[key] < low || langConfig[key] > high)
OutOfRange(langConfig, c) ==
  /\ c.key \in DOMAIN langConfig
  /\ Less(langConfig[c.key], c.low) \/ Greater(langConfig[c.key], c.high)

\* the messages pushed for one language entry that is an object
EntryErrors(langKey, langConfig) ==
  LET failed == SelectSeq(LanguageChecks, LAMBDA c : OutOfRange(langConfig, c))
  IN [i \in 1..Len(failed) |-> <<failed[i].subject, langKey, failed[i].range>>]
     \o (IF "model" \in DOMAIN langConfig /\ langConfig["model"][2] \notin validModels
         THEN << <<"Invalid model selection for '", langKey,
                   "'. Must be one of: codegpt, codebert, auto">> >>
         ELSE <<>>)
     \o (IF "indentStyle" \in DOMAIN langConfig
            /\ langConfig["indentStyle"] \notin {Str("spaces"), Str("tabs")}
         THEN << <<"Invalid indent style for '", langKey, "'. Must be 'spaces' or 'tabs'.">> >>
         ELSE <<>>)
     \o (IF OutOfRange(langConfig, IndentSizeCheck)
         THEN << <<IndentSizeCheck.subject, langKey, IndentSizeCheck.range>> >>
         ELSE <<>>)

\* Object.keys(languageSettings): the keys of the settings in file order,
\* which is taken to be this one
LanguageKeys == <<"python", "go">>

Keys(languageSettings) == SelectSeq(LanguageKeys, LAMBDA k : k \in DOMAIN languageSettings)

\* the loop over the language entries, from the entry at index i on
RECURSIVE LanguageErrors(_, _, _)
LanguageErrors(languageSettings, keys, i) ==
  IF i > Len(keys) THEN <<>>
  ELSE EntryErrors(keys[i], languageSettings[keys[i]][1])
       \o LanguageErrors(languageSettings, keys, i + 1)

\* the messages pushed before the loop over the language entries
GeneralErrors(configuration) ==
  LET apiUrl == Get(configuration, "apiUrl", Str("http://localhost:8000"))[2]
      failed == SelectSeq(GeneralChecks, LAMBDA c :
                  \/ Less(Get(configuration, c.key, c.default), c.low)
                  \/ Greater(Get(configuration, c.key, c.default), c.high))
  IN (IF apiUrl = "" \/ ~isValidUrl(apiUrl)
      THEN << <<"Invalid API URL. Please provide a valid HTTP/HTTPS URL.">> >>
      ELSE <<>>)
     \o [i \in 1..Len(failed) |-> failed[i].message]
     \o (IF Get(configuration, "model", Str("auto"))[2] \notin validModels
         THEN << <<"Invalid general model selection. Must be one of: codegpt, codebert, auto">> >>
         ELSE <<>>)

\* ConfigurationManager.validateConfiguration: how the call ends. Reading
\* langConfig.maxSuggestions of an entry that is null is a TypeError, which
\* nothing in the method catches
validateConfiguration(configuration) ==
  LET languageSettings == configuration.languages
      keys == Keys(languageSettings)
      errors == GeneralErrors(configuration) \o LanguageErrors(languageSettings, keys, 1)
  IN IF \E i \in 1..Len(keys) : languageSettings[keys[i]] = <<>>
     THEN [thrown |-> TRUE, result |-> <<>>]
     ELSE [thrown |-> FALSE, result |-> << [valid |-> Len(errors) = 0, errors |-> errors] >>]

\* ------------------------------------------ context (ContextExtractor)
\* ContextExtractor.maxContextLines
maxContextLines == 50

\* the lines of the documents below, character by character
Blank == <<>>
Assign == <<" ", " ", "x", " ", "=", " ", "1">>
DefF == <<"d", "e", "f", " ", "f", "(", "n", ")", ":">>
DefG == <<"d", "e", "f", " ", "g", "(", ")", ":">>
ClassA == <<"c", "l", "a", "s", "s", " ", "A", ":">>
ClassC == <<"c", "l", "a", "s", "s", " ", "C", ":">>
Call == <<" ", " ", "f", "(", "1", ")">>

LineTexts == {Blank, Assign, DefF, DefG, ClassA, ClassC, Call}

\* import lines: with and without indentation, and a from-import
ImportOs == <<"i", "m", "p", "o", "r", "t", " ", "o", "s">>
IndentedImport == <<" ", " ">> \o ImportOs
FromOs == <<"f", "r", "o", "m", " ", "o", "s", " ", "i", "m", "p", "o", "r", "t", " ", "p">>

\* extractImports: Math.min(50, document.lineCount)
ImportScanLines == 50

\* String.prototype.trim for the lines above: they end without white space
RECURSIVE trim(_)
trim(text) == IF text # <<>> /\ Head(text) = " " THEN trim(Tail(text)) ELSE text

\* extractImports: how many of the Python, JavaScript and Java patterns
\* match the trimmed line; each match pushes the line. /^(?:import|from)\s+/
\* matches both import lines, the two /^import\s+/ only `import os`
ImportPushes(line) ==
  CASE line = ImportOs -> 3
    [] line = FromOs -> 1
    [] OTHER -> 0

\* extractImports: what the three tests push for one trimmed line
ImportsOfLine(line) == [k \in 1..ImportPushes(line) |-> line]

\* extractFunctionContext: the object built from the first of the Python,
\* JavaScript and Java patterns that matches line.trim(); <<>> when none
\* does. The Java pattern asks for a word and a parenthesised list only, so
\* it also matches the call
FunctionMatch(text) ==
  CASE text = DefF -> << [name |-> "f", parameters |-> <<"n">>, returnType |-> Undefined] >>
    [] text = DefG -> << [name |-> "g", parameters |-> <<>>, returnType |-> Undefined] >>
    [] text = Call -> << [name |-> "f", parameters |-> <<"1">>, returnType |-> Undefined] >>
    [] OTHER -> <<>>

\* extractClassContext: the class name any of the three class patterns gives
ClassMatch(text) ==
  CASE text = ClassA -> <<"A">>
    [] text = ClassC -> <<"C">>
    [] OTHER -> <<>>

\* extractClassMembers: the method name of methodMatch; propertyMatch matches
\* none of the lines
MethodMatch(text) ==
  CASE text = DefF -> <<"f">>
    [] text = DefG -> <<"g">>
    [] OTHER -> <<>>

\* extractVariables: the variables pushed for a line
VariableMatch(text) ==
  IF text = Assign THEN << [name |-> "x", type |-> "number", scope |-> "local"] >> ELSE <<>>

\* document.lineAt(i).text, lines being counted from 0
lineAt(document, i) == document[i + 1]

\* text.substring(0, end)
substring(text, end) == SubSeq(text, 1, IF end < Len(text) THEN end ELSE Len(text))

\* a window that starts at the top of the document
getPreviousLines_fromTop(document, currentLine) ==
  [k \in 1..(IF currentLine < maxContextLines THEN currentLine ELSE maxContextLines) |->
     lineAt(document, k - 1)]

\* ContextExtractor.getPreviousLines
getPreviousLines(document, currentLine) ==
  LET startLine == IF currentLine - maxContextLines > 0
                   THEN currentLine - maxContextLines ELSE 0
  IN [k \in 1..(currentLine - startLine) |-> lineAt(document, startLine + k - 1)]

\* extractFunctionContext: the loop from line i down to line 0; the line
\* whose match is returned, -1 when the loop ends without one
RECURSIVE FunctionSearch(_, _)
FunctionSearch(document, i) ==
  IF i < 0 THEN -1
  ELSE IF FunctionMatch(lineAt(document, i)) # <<>> THEN i
  ELSE FunctionSearch(document, i - 1)

\* a search that returns the first matching line of the document
extractFunctionContext_fromTop(document, position) ==
  LET matching == { k \in 0..position.line : FunctionMatch(lineAt(document, k)) # <<>> }
  IN IF matching = {} THEN <<>>
     ELSE FunctionMatch(lineAt(document, CHOOSE k \in matching : \A j \in matching : k <= j))

\* ContextExtractor.extractFunctionContext: <<>> for null
extractFunctionContext(document, position) ==
  LET i == FunctionSearch(document, position.line)
  IN IF i < 0 THEN <<>> ELSE FunctionMatch(lineAt(document, i))

\* extractClassContext: the loop from line i down to line 0
RECURSIVE ClassSearch(_, _)
ClassSearch(document, i) ==
  IF i < 0 THEN -1
  ELSE IF ClassMatch(lineAt(document, i)) # <<>> THEN i
  ELSE ClassSearch(document, i - 1)

\* extractClassMembers: the method names of all lines from line i on, each
\* once, after those in methods
RECURSIVE extractClassMembers(_, _, _)
extractClassMembers(document, i, methods) ==
  IF i >= Len(document) THEN methods
  ELSE LET m == MethodMatch(lineAt(document, i))
       IN extractClassMembers(document, i + 1,
            IF m # <<>> /\ \A k \in 1..Len(methods) : methods[k] # m[1]
            THEN Append(methods, m[1]) ELSE methods)

\* ContextExtractor.extractClassContext: <<>> for null
extractClassContext(document, position) ==
  LET i == ClassSearch(document, position.line)
  IN IF i < 0 THEN <<>>
     ELSE << [ name |-> ClassMatch(lineAt(document, i))[1],
               methods |-> extractClassMembers(document, 0, <<>>),
               properties |-> <<>> ] >>

\* extractVariables: the lines from max(0, line - 20) up to the cursor line
RECURSIVE extractVariables(_, _, _)
extractVariables(document, i, line) ==
  IF i >= line THEN <<>>
  ELSE VariableMatch(lineAt(document, i)) \o extractVariables(document, i + 1, line)

\* ContextExtractor.extractImports: the loop from line i on
RECURSIVE extractImports(_, _)
extractImports(document, i) ==
  IF i >= (IF Len(document) < ImportScanLines THEN Len(document) ELSE ImportScanLines)
  THEN <<>>
  ELSE ImportsOfLine(trim(lineAt(document, i))) \o extractImports(document, i + 1)

\* ContextExtractor.extractContext. The
\* language is document.languageId, which the pipeline model carries.
\* functionLine and inspected tell where the function search stopped and how
\* many lines it read
extractContext(document, position) ==
  [ currentLine |-> substring(lineAt(document, position.line), position.character),
    previousLines |-> getPreviousLines(document, position.line),
    position |-> [line |-> position.line, character |-> position.character],
    functionContext |-> extractFunctionContext(document, position),
    classContext |-> extractClassContext(document, position),
    imports |-> extractImports(document, 0),
    variables |-> extractVariables(document,
                    IF position.line - 20 > 0 THEN position.line - 20 ELSE 0, position.line),
    functionLine |-> FunctionSearch(document, position.line),
    classLine |-> ClassSearch(document, position.line),
    inspected |-> IF FunctionSearch(document, position.line) < 0
                  THEN position.line + 1
                  ELSE position.line - FunctionSearch(document, position.line) + 1 ]

VARIABLES
  enabled,          \* ConfigurationManager: the 'enabled' value of the snapshot
  isProcessing,     \* CompletionProvider.isProcessing
  cache,            \* CompletionProvider.cache: Map in insertion order, <<[key, resp]>>
  languageConfigs,  \* CompletionProvider.languageConfigs
  stats,            \* StatisticsManager.stats (global counters)
  pc,               \* per invocation slot: "idle" or "awaiting"
  inv,              \* per invocation slot: the locals held across the await
  cancelled,        \* per invocation slot: token.isCancellationRequested
  net,              \* POST /api/v1/completions calls without a reply yet
  ret,              \* what the latest returning invocation returned
  triggers,         \* history: trigger events so far
  dispatched,       \* history: getSuggestions calls so far
  dropped,          \* history: triggers rejected by the guard so far
  hits,             \* history: keys served from the cache so far
  clearPosts,       \* history: POST /api/v1/cache/clear requests sent so far
  configuration,    \* ConfigurationManager.configuration: the snapshot of the section
  settings,         \* the user settings of the section, as the editor stores them
  pending,          \* configuration.update calls the editor has not written yet
  hashIn,           \* HashSpec: a pair of contexts
  hashOut,          \* HashSpec: their fingerprints, once computed
  dispIn,           \* DispatchSpec: what the transport hands to getSuggestions
  dispOut,          \* DispatchSpec: what getSuggestions resolves to, once settled
  rankIn,           \* RankSpec: the suggestions of a response, in response order
  rankOut,          \* RankSpec: the item lists of the conversions made so far
  fmtIn,            \* FormatSpec: a suggestion text and the language config, if any
  fmtOut,           \* FormatSpec: the formatted text, once computed
  valIn,            \* ValidateSpec: the snapshot validateConfiguration reads
  valOut,           \* ValidateSpec: how the call ended, once it has
  responseTimes,    \* StatisticsManager.responseTimes
  averageResponseTime, \* stats.averageResponseTime, as <<numerator, denominator>>
  globalState,      \* context.globalState 'completionStats': <<>> or <<what was saved>>
  arrived,          \* history: the response times recorded by this manager, in order
  extIn,            \* ExtractSpec: a document and a cursor position
  extOut,           \* ExtractSpec: what extractContext returns, once it has
  languageStats,    \* stats.languageStats: the entry of each language that has one
  dailyStats,       \* stats.dailyStats: the entry of each day that has one
  today,            \* the day of the clock, as an index of Dates
  snapshot,         \* <<>> or <<the object the last getStatistics returned>>
  enabledSetting,   \* the 'enabled' setting as the editor stores it
  enabledUpdates,   \* configuration.update('enabled', v) calls not yet written
  announced         \* history: what each run of the toggle command read, set and showed

pipeVars == <<enabled, isProcessing, cache, languageConfigs, stats, pc, inv,
              cancelled, net, ret, triggers, dispatched, dropped, hits, clearPosts,
              configuration, settings, pending>>
cfgVars == <<configuration, settings, pending>>
hashVars == <<hashIn, hashOut>>
dispVars == <<dispIn, dispOut>>
rankVars == <<rankIn, rankOut>>
fmtVars == <<fmtIn, fmtOut>>
valVars == <<valIn, valOut>>
statVars == <<responseTimes, averageResponseTime, globalState, arrived>>
extVars == <<extIn, extOut>>
tallyVars == <<languageStats, dailyStats, today, snapshot>>
toggleVars == <<enabledSetting, enabledUpdates, announced>>
moreVars == <<valVars, statVars, extVars, tallyVars, toggleVars>>
pureVars == <<hashVars, dispVars, rankVars, fmtVars, moreVars>>
vars == <<pipeVars, pureVars>>

\* ------------------------------------------------------------ fingerprints
\* the tokens of a functionContext object {name, parameters, returnType?}
FunctionJson(f) ==
  IF f = <<>> THEN <<>>
  ELSE << JsonString("name", f[1].name) \o JsonArray("parameters", f[1].parameters)
          \o JsonString("returnType", f[1].returnType) >>

\* the tokens of a classContext object {name, methods, properties}
ClassJson(c) ==
  IF c = <<>> THEN <<>>
  ELSE << JsonString("name", c[1].name) \o JsonArray("methods", c[1].methods)
          \o JsonArray("properties", c[1].properties) >>

\* CompletionProvider.generateContextHash, with a previousLines of another length
generateContextHash_allLines(context) ==
  Md5(   JsonString("currentLine", context.currentLine)
      \o JsonArray("previousLines", context.previousLines)
      \o JsonString("language", context.language)
      \o JsonObject("functionContext", FunctionJson(context.functionContext))
      \o JsonObject("classContext", ClassJson(context.classContext))
      \o JsonString("fileExtension", context.fileExtension)
      \o JsonString("indentStyle", context.indentStyle)
      \o JsonNumber("indentSize", context.indentSize))

\* CompletionProvider.generateContextHash
generateContextHash(context) ==
  Md5(   JsonString("currentLine", context.currentLine)
      \o JsonArray("previousLines", SliceLast(context.previousLines, HashTailLines))
      \o JsonString("language", context.language)
      \o JsonObject("functionContext", FunctionJson(context.functionContext))
      \o JsonObject("classContext", ClassJson(context.classContext))
      \o JsonString("fileExtension", context.fileExtension)
      \o JsonString("indentStyle", context.indentStyle)
      \o JsonNumber("indentSize", context.indentSize))

\* APIClient.generateContextHash: the context_hash sent with feedback
apiGenerateContextHash(context) ==
  Md5(   JsonString("currentLine", context.currentLine)
      \o JsonString("language", context.language)
      \o JsonObject("functionContext", FunctionJson(context.functionContext))
      \o JsonString("filePath", context.filePath))

\* ------------------------------------------------------- context building
\* the template literal `.${fileExtension}`
Dotted(tail) ==
  CASE tail = "py" -> ".py"
    [] tail = "pyi" -> ".pyi"
    [] tail = "go" -> ".go"
    [] tail = "txt" -> ".txt"
    [] tail = "Makefile" -> ".Makefile"
    [] OTHER -> ".?"

\* CompletionProvider.enhanceContextWithLanguageInfo; document.fileName
\* .split('.').pop() is doc.fileNameTail, and `x || d` takes d when x is
\* undefined (no table entry) or 0
enhanceContextWithLanguageInfo(context, doc) ==
  LET known == doc.languageId \in DOMAIN languageConfigs
      cfg == languageConfigs[doc.languageId]
  IN [ currentLine     |-> context.currentLine,
       filePath        |-> context.filePath,
       previousLines   |-> context.previousLines,
       position        |-> context.position,
       language        |-> doc.languageId,
       functionContext |-> context.functionContext,
       classContext    |-> context.classContext,
       imports         |-> context.imports,
       variables       |-> context.variables,
       fileExtension   |-> IF doc.fileNameTail # "" THEN Dotted(doc.fileNameTail) ELSE Undefined,
       indentStyle     |-> IF known THEN cfg.indentStyle ELSE "spaces",
       indentSize      |-> IF known /\ cfg.indentSize # 0 THEN cfg.indentSize ELSE 4,
       contextWindow   |-> IF known /\ cfg.contextWindow # 0 THEN cfg.contextWindow ELSE 1024 ]

\* a table that knows every language
isLanguageSupported_any(language) == TRUE

\* CompletionProvider.isLanguageSupported
isLanguageSupported(language) == language \in DOMAIN languageConfigs

\* ------------------------------------------------------------------- cache
\* the position of key in the Map, 0 when absent
CacheIndex(c, key) ==
  IF \E k \in 1..Len(c) : c[k].key = key
  THEN CHOOSE k \in 1..Len(c) : c[k].key = key
  ELSE 0

\* Map.prototype.has
CacheHas(c, key) == CacheIndex(c, key) # 0

\* Map.prototype.get (asked only for a key that is present)
CacheGet(c, key) == c[CacheIndex(c, key)].resp

\* Map.prototype.set: a new key goes last, a present key keeps its place
CacheSet(c, key, resp) ==
  IF CacheHas(c, key)
  THEN [c EXCEPT ![CacheIndex(c, key)] = [key |-> key, resp |-> resp]]
  ELSE Append(c, [key |-> key, resp |-> resp])

\* cleanupCache that never evicts
cleanupCache_keepAll(c) == c

\* cleanupCache that evicts the youngest entries
cleanupCache_newest(c) ==
  IF Len(c) > MaxCacheSize THEN SubSeq(c, 1, Len(c) - EvictCount) ELSE c

\* CompletionProvider.cleanupCache: past 100 entries, delete the first 50
\* keys of the Map's iteration (insertion) order
cleanupCache(c) ==
  IF Len(c) > MaxCacheSize
  THEN SubSeq(c, Len(SliceFirst(c, EvictCount)) + 1, Len(c))
  ELSE c

\* the condition under which a response is cached, were it not examined
CachesResponse_any(response) == TRUE

\* provideCompletionItems: if (response.status === 'success')
CachesResponse(response) == response.status = "success"

\* the cache lookup that never hits
CacheHit_never(c, key) == FALSE

\* a lookup that serves only the responses the service flagged as cache hits
CacheHit_flagged(c, key) == CacheHas(c, key) /\ CacheGet(c, key).cacheHit

\* provideCompletionItems: cachedResponse && cachedResponse.status === 'success'
CacheHit(c, key) == CacheHas(c, key) /\ CacheGet(c, key).status = "success"

\* -------------------------------------------------------------- statistics
\* StatisticsManager.loadStatistics without saved state
ZeroStats ==
  [ totalRequests |-> 0, totalSuggestions |-> 0, acceptedSuggestions |-> 0,
    cacheHits |-> 0, errorCount |-> 0 ]

\* StatisticsManager.recordCompletion (global counters)
recordCompletion(st, language, suggestionCount, cacheHit) ==
  [st EXCEPT !.totalRequests = @ + 1,
             !.totalSuggestions = @ + suggestionCount,
             !.cacheHits = IF cacheHit THEN @ + 1 ELSE @]

\* an acceptance that is also counted as a suggestion less
recordAcceptance_takesSuggestion(st, language) ==
  [st EXCEPT !.acceptedSuggestions = @ + 1,
             !.totalSuggestions = IF @ > 0 THEN @ - 1 ELSE @]

\* StatisticsManager.recordAcceptance (global counters)
recordAcceptance(st, language) == [st EXCEPT !.acceptedSuggestions = @ + 1]

\* the entry recordCompletion creates for a language without one;
\* avgResponseTime is kept as <<numerator, denominator>>
ZeroLanguage ==
  [requests |-> 0, suggestions |-> 0, accepted |-> 0, avgResponseTime |-> <<0, 1>>]

\* the entry recordCompletion creates for a day without one
ZeroDay == [requests |-> 0, accepted |-> 0]

\* a language update that leaves the suggestions of the language alone
LanguageCompletion_noSuggestions(table, language, suggestionCount, responseTime) ==
  LET langStats == IF language \in DOMAIN table THEN table[language] ELSE ZeroLanguage
  IN [l \in DOMAIN table \cup {language} |->
        IF l = language THEN [langStats EXCEPT !.requests = @ + 1] ELSE table[l]]

\* recordCompletion, language-specific stats: the entry is created when the
\* language has none, then requests, suggestions and the running average
\* ((avg * (requests - 1)) + responseTime) / requests are updated
LanguageCompletion(table, language, suggestionCount, responseTime) ==
  LET langStats == IF language \in DOMAIN table THEN table[language] ELSE ZeroLanguage
  IN [l \in DOMAIN table \cup {language} |->
        IF l = language
        THEN [langStats EXCEPT
                !.requests = @ + 1,
                !.suggestions = @ + suggestionCount,
                !.avgResponseTime =
                   <<(IF langStats.requests = 0 THEN 0 ELSE @[1]) + responseTime,
                     langStats.requests + 1>>]
        ELSE table[l]]

\* recordCompletion, daily stats: the entry of the day is created when the
\* day has none, then its requests are counted
DailyCompletion(table, day) ==
  LET dayStats == IF day \in DOMAIN table THEN table[day] ELSE ZeroDay
  IN [d \in DOMAIN table \cup {day} |->
        IF d = day THEN [dayStats EXCEPT !.requests = @ + 1] ELSE table[d]]

\* recordAcceptance, language and daily stats alike: accepted is counted in
\* the entry of the key when the table has one
CountAccepted(table, key) ==
  IF key \in DOMAIN table
  THEN [table EXCEPT ![key] = [@ EXCEPT !.accepted = @ + 1]]
  ELSE table

\* the sum of a counter over the entries of a table
RECURSIVE Total(_, _)
Total(table, field) ==
  IF DOMAIN table = {}
  THEN 0
  ELSE LET k == CHOOSE key \in DOMAIN table : TRUE
       IN table[k][field] + Total([j \in DOMAIN table \ {k} |-> table[j]], field)

\* new Date().toISOString().split('T')[0] on the days of the clock
Dates == <<"2026-01-01", "2026-01-02", "2026-01-03", "2026-01-04">>

\* getStatistics: { ...this.stats } copies the counters of stats; its
\* languageStats and dailyStats are the objects of the manager, not copies
getStatistics(st, average, languages, days) ==
  [ stats |-> st, averageResponseTime |-> average,
    languageStats |-> languages, dailyStats |-> days ]

\* a snapshot after the manager has written its tables: the tables the
\* snapshot shares with the manager show the write
Shared(snap, languages, days) ==
  IF snap = <<>>
  THEN snap
  ELSE << [snap[1] EXCEPT !.object.languageStats = languages,
                          !.object.dailyStats = days] >>

\* StatisticsManager.maxResponseTimeHistory
maxResponseTimeHistory == 100

RECURSIVE Sum(_)
Sum(seq) == IF seq = <<>> THEN 0 ELSE Head(seq) + Sum(Tail(seq))

\* a window that never drops a value
PushResponseTime_keepAll(times, responseTime) == Append(times, responseTime)

\* recordCompletion: responseTimes after the push and the shift
PushResponseTime(times, responseTime) ==
  LET pushed == Append(times, responseTime)
  IN IF Len(pushed) > maxResponseTimeHistory THEN Tail(pushed) ELSE pushed

\* recordCompletion: reduce((a, b) => a + b, 0) / length, kept as a fraction
Average(times) == <<Sum(times), Len(times)>>

\* StatisticsManager.getCacheHitRate: (cacheHits / totalRequests) * 100, kept
\* as a fraction <<numerator, denominator>>
getCacheHitRate(st) ==
  IF st.totalRequests = 0 THEN <<0, 1>> ELSE <<st.cacheHits * 100, st.totalRequests>>

\* StatisticsManager.recordCacheHit
recordCacheHit(st) == [st EXCEPT !.cacheHits = @ + 1]

\* an error record that also counts a request
recordError_countsRequest(st, errorType) ==
  [st EXCEPT !.errorCount = @ + 1, !.totalRequests = @ + 1]

\* an error record that counts the error twice
recordError_twice(st, errorType) == [st EXCEPT !.errorCount = @ + 2]

\* StatisticsManager.recordError
recordError(st, errorType) == [st EXCEPT !.errorCount = @ + 1]

\* ---------------------------------------------------------------- dispatch
\* a member of the 2xx body is absent or of another type than the validator asks
Lacking(data, field) ==
  \/ "body" \in data.lacks
  \/ field \in data.lacks
  \/ field \in {"processingTimeMs", "modelVersion", "cacheHit"} /\ "metadata" \in data.lacks

\* a validator that does not look at data.status
isValidSuggestionResponse_noStatus(data) ==
  /\ ~Lacking(data, "body")
  /\ ~Lacking(data, "suggestions")
  /\ ~Lacking(data, "metadata")
  /\ ~Lacking(data, "processingTimeMs")
  /\ ~Lacking(data, "modelVersion")
  /\ ~Lacking(data, "cacheHit")

\* APIClient.isValidSuggestionResponse: data, Array.isArray(data.suggestions),
\* data.metadata, and the typeof tests of its three members and of data.status
isValidSuggestionResponse(data) ==
  /\ ~Lacking(data, "body")
  /\ ~Lacking(data, "suggestions")
  /\ ~Lacking(data, "metadata")
  /\ ~Lacking(data, "processingTimeMs")
  /\ ~Lacking(data, "modelVersion")
  /\ ~Lacking(data, "cacheHit")
  /\ ~Lacking(data, "status")

\* an error handler that asks for the request before the response
getErrorMessage_requestFirst(error) ==
  IF error.hasRequest THEN <<"No response from server">>
  ELSE IF error.hasResponse
  THEN <<"Server error", ToString(error.httpStatus), error.statusText>>
  ELSE IF error.code = "ECONNABORTED" THEN <<"Request timeout">>
  ELSE <<"Request failed", error.message>>

\* APIClient.getErrorMessage, on the error caught by getSuggestions
getErrorMessage(error) ==
  IF error.hasResponse
  THEN <<"Server error", ToString(error.httpStatus), error.statusText>>
  ELSE IF error.hasRequest THEN <<"No response from server">>
  ELSE IF error.code = "ECONNABORTED" THEN <<"Request timeout">>
  ELSE <<"Request failed", error.message>>

\* the error axios rejects with for a reply, or the Error getSuggestions throws
\* for a 2xx body the validator turns down
ErrorOf(reply) ==
  CASE reply.kind = "http" ->
         [hasResponse |-> TRUE, hasRequest |-> TRUE, code |-> "ERR_BAD_RESPONSE",
          httpStatus |-> reply.httpStatus, statusText |-> reply.statusText,
          message |-> "Request failed with status code"]
    [] reply.kind = "noresponse" ->
         [hasResponse |-> FALSE, hasRequest |-> TRUE, code |-> "ECONNREFUSED",
          httpStatus |-> 0, statusText |-> "", message |-> "connect ECONNREFUSED"]
    [] reply.kind = "timeout" ->
         [hasResponse |-> FALSE, hasRequest |-> TRUE, code |-> "ECONNABORTED",
          httpStatus |-> 0, statusText |-> "", message |-> "timeout of 10000ms exceeded"]
    [] OTHER ->
         [hasResponse |-> FALSE, hasRequest |-> FALSE, code |-> "",
          httpStatus |-> 0, statusText |-> "",
          message |-> "Invalid response format from API"]

\* APIClient.getSuggestions from the settlement of httpClient.post on: the
\* body of a well-formed 2xx reply, the error response for anything else
getSuggestionsResult(reply) ==
  IF reply.kind = "ok" /\ isValidSuggestionResponse(reply)
  THEN [ status |-> reply.status, suggestions |-> reply.suggestions,
         cacheHit |-> reply.cacheHit, errorMessage |-> <<>> ]
  ELSE [ status |-> "error", suggestions |-> <<>>, cacheHit |-> FALSE,
         errorMessage |-> getErrorMessage(ErrorOf(reply)) ]

\* -------------------------------------------------------------- conversion
\* formatSuggestionText calls text.split: a TypeError unless text is a string
ConvertThrows(suggestions) ==
  \E k \in 1..Len(suggestions) : suggestions[k].text = NotAString

\* a text is the sequence of its characters; \s matches these of them
IsSpace(ch) == ch \in {" ", "\t", "\r"}

\* text.split('\n'): the pieces between the newlines, at least one
RECURSIVE Split(_)
Split(text) ==
  IF \A k \in 1..Len(text) : text[k] # "\n" THEN <<text>>
  ELSE LET k == CHOOSE n \in 1..Len(text) :
                  text[n] = "\n" /\ \A m \in 1..(n - 1) : text[m] # "\n"
       IN <<SubSeq(text, 1, k - 1)>> \o Split(SubSeq(text, k + 1, Len(text)))

\* lines.join('\n')
RECURSIVE Join(_)
Join(lines) ==
  IF Len(lines) = 1 THEN lines[1] ELSE lines[1] \o <<"\n">> \o Join(Tail(lines))

\* the length of the match of /^(\s*)/: the whitespace a line starts with
LeadingSpace(line) ==
  CHOOSE n \in 0..Len(line) :
    /\ \A k \in 1..n : IsSpace(line[k])
    /\ n < Len(line) => ~IsSpace(line[n + 1])

\* a replacement that puts the indent in front of the line as it is
ReplaceLeadingSpace_prepend(line, indentChar) == indentChar \o line

\* line.replace(/^(\s*)/, indentChar)
ReplaceLeadingSpace(line, indentChar) ==
  indentChar \o SubSeq(line, LeadingSpace(line) + 1, Len(line))

\* config.indentStyle === 'tabs' ? '\t' : ' '.repeat(config.indentSize)
IndentChar(config) ==
  IF config.indentStyle = "tabs" THEN <<"\t">> ELSE [k \in 1..config.indentSize |-> " "]

\* a formatter that re-indents the first line as well
formatSuggestionText_allLines(text, context, config) ==
  IF config = <<>> THEN text
  ELSE LET lines == Split(text)
       IN IF Len(lines) > 1
          THEN Join([index \in 1..Len(lines) |->
                       ReplaceLeadingSpace(lines[index], IndentChar(config[1]))])
          ELSE text

\* CompletionProvider.formatSuggestionText; config is <<>> when the language
\* has no entry in the table
formatSuggestionText(text, context, config) ==
  IF config = <<>> THEN text
  ELSE LET lines == Split(text)
       IN IF Len(lines) > 1
          THEN Join([index \in 1..Len(lines) |->
                       IF index = 1 THEN lines[index]
                       ELSE ReplaceLeadingSpace(lines[index], IndentChar(config[1]))])
          ELSE text

\* Math.round(confidence * 999), confidence given in thousandths: the nearest
\* integer, a half rounded up
Round999(confidence) == (confidence * 999 + 500) \div 1000

\* the decimal digits of a natural number, as characters
RECURSIVE Digits(_)
Digits(n) ==
  LET d == <<"0", "1", "2", "3", "4", "5", "6", "7", "8", "9">>
  IN IF n < 10 THEN <<d[n + 1]>> ELSE Digits(n \div 10) \o <<d[(n % 10) + 1]>>

\* String(n) for an integer n
String(n) == IF n < 0 THEN <<"-">> \o Digits(0 - n) ELSE Digits(n)

\* s.padStart(width, fill) for a one-character fill
PadStart(s, width, fill) ==
  IF Len(s) >= width THEN s ELSE [k \in 1..(width - Len(s)) |-> fill] \o s

\* convertToCompletionItems: priorityBonus, sortValue and item.sortText
SortText(suggestion) ==
  LET priorityBonus == IF suggestion.languageSpecific THEN 100 ELSE 0
      sortValue == 1000 - Round999(suggestion.confidence) - priorityBonus
  IN PadStart(String(sortValue), 4, "0")

\* CompletionProvider.convertToCompletionItems: one item per suggestion, in
\* response order
convertToCompletionItems(suggestions, context) ==
  LET languageConfig == IF context.language \in DOMAIN languageConfigs
                        THEN <<languageConfigs[context.language]>> ELSE <<>>
  IN [k \in 1..Len(suggestions) |->
        [label |-> suggestions[k].text,
         insertText |-> formatSuggestionText(suggestions[k].text, context, languageConfig),
         sortText |-> SortText(suggestions[k]),
         index |-> k - 1, language |-> context.language]]

\* ------------------------------------------------------------------ inputs
\* what ContextExtractor.extractContext returns for a document and position
RawContext(line, prev, pos, fn, cls, imports) ==
  [ currentLine |-> line, filePath |-> Undefined, previousLines |-> prev,
    position |-> pos, functionContext |-> fn, classContext |-> cls,
    imports |-> imports, variables |-> <<>> ]

Fibonacci == << [name |-> "fibonacci", parameters |-> <<"n">>, returnType |-> Undefined] >>

\* a document with the cursor position of the trigger; lineExists is false
\* when document.lineAt(position.line) throws
Doc(languageId, tail, lineExists, extracted) ==
  [ languageId |-> languageId, fileNameTail |-> tail, lineExists |-> lineExists,
    extracted |-> extracted ]

Documents ==
  { Doc("python", "py", TRUE,
        RawContext("    return ", <<"def fibonacci(n):">>, [line |-> 1, character |-> 11],
                   Fibonacci, <<>>, <<>>)),
    \* the same projected fields, another cursor line and another import list
    Doc("python", "py", TRUE,
        RawContext("    return ", <<"def fibonacci(n):">>, [line |-> 7, character |-> 11],
                   Fibonacci, <<>>, <<"import os">>)),
    Doc("go", "go", TRUE,
        RawContext("x := ", <<>>, [line |-> 0, character |-> 5], <<>>, <<>>, <<>>)),
    Doc("plaintext", "txt", TRUE,
        RawContext("hello ", <<>>, [line |-> 0, character |-> 6], <<>>, <<>>, <<>>)),
    Doc("python", "py", FALSE,
        RawContext("", <<>>, [line |-> 9, character |-> 0], <<>>, <<>>, <<>>)) }

Suggestion(text, confidence) ==
  [text |-> text, confidence |-> confidence, type |-> "single-line", languageSpecific |-> FALSE]

SuggestionLists ==
  { <<>>,
    <<Suggestion(<<"a", "\n", " ", "b">>, 900), Suggestion(<<"n">>, 500)>>,
    <<Suggestion(NotAString, 100)>> }

\* the reason phrase of an HTTP status line
StatusText(httpStatus) ==
  CASE httpStatus = 200 -> "OK"
    [] httpStatus = 304 -> "Not Modified"
    [] httpStatus = 404 -> "Not Found"
    [] httpStatus = 500 -> "Internal Server Error"
    [] httpStatus = 503 -> "Service Unavailable"
    [] OTHER -> ""

\* kind "ok" is a 2xx reply, "http" one with another status, "noresponse" and
\* "timeout" are requests that got no reply
Reply(kind, httpStatus, status, suggestions, cacheHit) ==
  [ kind |-> kind, httpStatus |-> httpStatus, statusText |-> StatusText(httpStatus),
    status |-> status, suggestions |-> suggestions, cacheHit |-> cacheHit, lacks |-> {} ]

\* a 2xx reply whose body lacks the members named: data.status is undefined
\* when it lacks status, and there is no list when it lacks suggestions
Malformed(reply, lacks) ==
  [ reply EXCEPT !.lacks = lacks,
                 !.status = IF Lacking([lacks |-> lacks], "status") THEN Undefined ELSE @,
                 !.suggestions = IF Lacking([lacks |-> lacks], "suggestions") THEN <<>> ELSE @ ]

\* what the service, or the transport, may answer to one POST
Replies ==
     { Reply("ok", 200, "success", sg, ch) : sg \in SuggestionLists, ch \in BOOLEAN }
  \cup { Reply("ok", 200, st, <<>>, FALSE) : st \in {"partial", "error"} }
  \cup { Malformed(Reply("ok", 200, "success", <<>>, FALSE), {"suggestions"}) }
  \cup { Reply(k, 0, "", <<>>, FALSE) : k \in {"noresponse", "timeout"} }
  \cup { Reply("http", 500, "", <<>>, FALSE) }

\* -------------------------------------------------------------------- Init
NoReturn == [via |-> "none", items |-> <<>>, resp |-> <<>>]

Returned(via, items, resp) == [via |-> via, items |-> items, resp |-> resp]

\* the provider, the client and the statistics after activation
CoreInit ==
  /\ enabled = TRUE
  /\ isProcessing = FALSE
  /\ cache = <<>>
  /\ languageConfigs = DefaultConfigs
  /\ stats = ZeroStats
  /\ pc = [i \in Invs |-> "idle"]
  /\ inv = [i \in Invs |-> <<>>]
  /\ cancelled = [i \in Invs |-> FALSE]
  /\ net = {}
  /\ ret = NoReturn
  /\ triggers = 0
  /\ dispatched = 0
  /\ dropped = 0
  /\ hits = {}
  /\ clearPosts = 0

\* activation with no setting of the section made by the user
PipeInit ==
  /\ CoreInit
  /\ configuration = NoSettings
  /\ settings = NoSettings
  /\ pending = <<>>

\* ----------------------------------------------------------------- actions
\* a switch that is always on
isEnabled_always == TRUE

\* ConfigurationManager.isEnabled: configuration.get('enabled', true)
isEnabled == enabled

\* a guard that lets every trigger through
GuardHeld_never == FALSE

\* provideCompletionItems: if (this.isProcessing) return []
GuardHeld == isProcessing

\* the guard after the finally block, were the block missing
Finally_keep(g) == g

\* provideCompletionItems: finally { this.isProcessing = false }
Finally(g) == FALSE

\* the guard after an early return, were the return inside the try block
EarlyReturn_release(g) == FALSE

\* the guard after a return that precedes the try block: as it was
EarlyReturn(g) == g

\* provideCompletionItems(document, position, token, context) from its call
\* to its return, or to `await this.apiClient.getSuggestions(codeContext)`
Trigger(i, doc) ==
  /\ pc[i] = "idle"
  /\ \A j \in Invs : j < i => pc[j] # "idle"   \* slots are taken lowest first
  /\ triggers' = triggers + 1
  /\ cancelled' = [cancelled EXCEPT ![i] = FALSE]
  /\ UNCHANGED <<enabled, languageConfigs, cache, clearPosts, cfgVars, pureVars>>
  /\ IF ~isEnabled
     THEN /\ ret' = Returned("disabled", <<>>, <<>>)
          /\ isProcessing' = EarlyReturn(isProcessing)
          /\ UNCHANGED <<stats, pc, inv, net, dispatched, dropped, hits>>
     ELSE IF GuardHeld
     THEN /\ ret' = Returned("dropped", <<>>, <<>>)
          /\ dropped' = dropped + 1
          /\ isProcessing' = EarlyReturn(isProcessing)
          /\ UNCHANGED <<stats, pc, inv, net, dispatched, hits>>
     ELSE IF ~doc.lineExists
     THEN \* extractContext throws: catch, finally
          /\ stats' = recordError(stats, "provider_error")
          /\ ret' = Returned("exception", <<>>, <<>>)
          /\ isProcessing' = Finally(TRUE)
          /\ UNCHANGED <<pc, inv, net, dispatched, dropped, hits>>
     ELSE
       LET codeContext == enhanceContextWithLanguageInfo(doc.extracted, doc)
           contextHash == generateContextHash(codeContext)
       IN IF ~isLanguageSupported(codeContext.language)
          THEN /\ ret' = Returned("unsupported", <<>>, <<>>)
               /\ isProcessing' = Finally(TRUE)
               /\ UNCHANGED <<stats, pc, inv, net, dispatched, dropped, hits>>
          ELSE IF CacheHit(cache, contextHash)
          THEN LET cachedResponse == CacheGet(cache, contextHash)
               IN /\ hits' = hits \cup {contextHash}
                  /\ IF ConvertThrows(cachedResponse.suggestions)
                     THEN /\ stats' = recordError(recordCacheHit(stats), "provider_error")
                          /\ ret' = Returned("exception", <<>>, <<cachedResponse>>)
                     ELSE /\ stats' = recordCacheHit(stats)
                          /\ ret' = Returned("cache",
                                 convertToCompletionItems(cachedResponse.suggestions, codeContext),
                                 <<cachedResponse>>)
                  /\ isProcessing' = Finally(TRUE)
                  /\ UNCHANGED <<pc, inv, net, dispatched, dropped>>
          ELSE \* getSuggestions posts the request and the invocation awaits
               /\ isProcessing' = TRUE
               /\ pc' = [pc EXCEPT ![i] = "awaiting"]
               /\ inv' = [inv EXCEPT ![i] = <<[codeContext |-> codeContext,
                                               contextHash |-> contextHash]>>]
               /\ net' = net \cup {[inv |-> i, context |-> codeContext,
                                     max_suggestions |->
                                       getMaxSuggestions(configuration, codeContext.language)]}
               /\ dispatched' = dispatched + 1
               /\ UNCHANGED <<stats, ret, dropped, hits>>

\* provideCompletionItems from the settlement of getSuggestions to its return
Resolve(i, reply) ==
  /\ pc[i] = "awaiting"
  /\ LET codeContext == inv[i][1].codeContext
         contextHash == inv[i][1].contextHash
         response == getSuggestionsResult(reply)
     IN /\ net' = {r \in net : r.inv # i}
        /\ IF CachesResponse(response)
           THEN /\ cache' = cleanupCache(CacheSet(cache, contextHash, response))
                /\ IF ConvertThrows(response.suggestions)
                   THEN /\ stats' = recordError(
                                      recordCompletion(stats, codeContext.language,
                                        Len(response.suggestions), response.cacheHit),
                                      "provider_error")
                        /\ ret' = Returned("exception", <<>>, <<response>>)
                   ELSE /\ stats' = recordCompletion(stats, codeContext.language,
                                        Len(response.suggestions), response.cacheHit)
                        /\ ret' = Returned("dispatch",
                               convertToCompletionItems(response.suggestions, codeContext),
                               <<response>>)
           ELSE /\ stats' = recordError(stats, "api_error")
                /\ ret' = Returned("error", <<>>, <<response>>)
                /\ UNCHANGED cache
  /\ isProcessing' = Finally(TRUE)
  /\ pc' = [pc EXCEPT ![i] = "idle"]
  /\ inv' = [inv EXCEPT ![i] = <<>>]
  /\ UNCHANGED <<enabled, languageConfigs, cancelled, triggers, dispatched, dropped,
                 hits, clearPosts, cfgVars, pureVars>>

\* the editor cancels the token of a pending invocation; provideCompletionItems
\* and getSuggestions never read the token
Cancel(i) ==
  /\ pc[i] = "awaiting"
  /\ ~cancelled[i]
  /\ cancelled' = [cancelled EXCEPT ![i] = TRUE]
  /\ UNCHANGED <<enabled, isProcessing, cache, languageConfigs, stats, pc, inv, net,
                 ret, triggers, dispatched, dropped, hits, clearPosts, cfgVars, pureVars>>

\* CompletionProvider.clearCache
ClearCache ==
  /\ cache # <<>>
  /\ cache' = <<>>
  /\ UNCHANGED <<enabled, isProcessing, languageConfigs, stats, pc, inv, cancelled,
                 net, ret, triggers, dispatched, dropped, hits, clearPosts, cfgVars, pureVars>>

\* the aiCodeCompletion.clearCache command: apiClient.clearCache() posts the
\* clear request to the service and does not wait for it, then the message
\* 'Completion cache cleared' is shown
ClearCacheCommand ==
  /\ clearPosts' = clearPosts + 1
  /\ UNCHANGED <<enabled, isProcessing, cache, languageConfigs, stats, pc, inv, cancelled,
                 net, ret, triggers, dispatched, dropped, hits, cfgVars, pureVars>>

\* the user changes 'enabled' in the settings; configChangeListener runs
\* ConfigurationManager.reloadConfiguration
ReloadEnabled(e) ==
  /\ enabled # e
  /\ enabledSetting' = e
  /\ enabled' = enabledSetting'
  /\ UNCHANGED <<isProcessing, cache, languageConfigs, stats, pc, inv, cancelled,
                 net, ret, triggers, dispatched, dropped, hits, clearPosts, cfgVars,
                 hashVars, dispVars, rankVars, fmtVars, valVars, statVars, extVars,
                 tallyVars, enabledUpdates, announced>>

\* the text the toggle command shows for the value it hands to setEnabled
ToggleMessage(value) ==
  IF value THEN "AI Code Completion enabled" ELSE "AI Code Completion disabled"

\* a run of the toggle command: isEnabled reads the snapshot, setEnabled hands
\* the negation to configuration.update without waiting for it, and the
\* message names the negation
ToggleCommand ==
  /\ enabledUpdates' = Append(enabledUpdates, ~isEnabled)
  /\ announced' = Append(announced,
       [ read |-> isEnabled, set |-> ~isEnabled, message |-> ToggleMessage(~isEnabled),
         stored |-> enabledSetting, unwritten |-> Len(enabledUpdates) ])
  /\ UNCHANGED <<pipeVars, hashVars, dispVars, rankVars, fmtVars, valVars, statVars,
                 extVars, tallyVars, enabledSetting>>

\* the editor writes the oldest update of 'enabled'; configChangeListener
\* reloads the snapshot
EnabledPersisted ==
  /\ enabledUpdates # <<>>
  /\ enabledSetting' = Head(enabledUpdates)
  /\ enabledUpdates' = Tail(enabledUpdates)
  /\ enabled' = enabledSetting'
  /\ UNCHANGED <<isProcessing, cache, languageConfigs, stats, pc, inv, cancelled,
                 net, ret, triggers, dispatched, dropped, hits, clearPosts, cfgVars,
                 hashVars, dispVars, rankVars, fmtVars, valVars, statVars, extVars,
                 tallyVars, announced>>

\* {...a, ...b}
Spread(a, b) ==
  [k \in DOMAIN a \cup DOMAIN b |-> IF k \in DOMAIN b THEN b[k] ELSE a[k]]

\* currentLanguages[language] as the spread operator sees it: nothing for
\* undefined and for null
EntryOf(currentLanguages, language) ==
  IF language \in DOMAIN currentLanguages /\ currentLanguages[language] # <<>>
  THEN currentLanguages[language][1]
  ELSE EmptyObject

\* updateLanguageConfig: updatedLanguages
UpdatedLanguages(currentLanguages, language, config) ==
  [l \in DOMAIN currentLanguages \cup {language} |->
     IF l = language
     THEN <<Spread(EntryOf(currentLanguages, language), config)>>
     ELSE currentLanguages[l]]

\* ConfigurationManager.updateLanguageConfig up to `await configuration.update`:
\* the table is read from the snapshot and the new table handed to the editor
updateLanguageConfig(language, config) ==
  /\ pending' = Append(pending,
       [ op |-> "update", language |-> language, config |-> config,
         languages |-> UpdatedLanguages(configuration.languages, language, config) ])
  /\ UNCHANGED <<enabled, isProcessing, cache, languageConfigs, stats, pc, inv, cancelled,
                 net, ret, triggers, dispatched, dropped, hits, clearPosts,
                 configuration, settings, pureVars>>

\* ConfigurationManager.removeLanguageConfig up to `await configuration.update`
removeLanguageConfig(language) ==
  /\ pending' = Append(pending,
       [ op |-> "remove", language |-> language, config |-> EmptyObject,
         languages |-> [l \in DOMAIN configuration.languages \ {language} |->
                          configuration.languages[l]] ])
  /\ UNCHANGED <<enabled, isProcessing, cache, languageConfigs, stats, pc, inv, cancelled,
                 net, ret, triggers, dispatched, dropped, hits, clearPosts,
                 configuration, settings, pureVars>>

\* configuration.update('languages', updatedLanguages, Global) once the editor
\* has written it: the table handed over replaces the stored one
Written(stored, call) == [stored EXCEPT !.languages = call.languages]

\* the editor writes the oldest update; onDidChangeConfiguration runs
\* configChangeListener and the call that awaited the update resumes: both
\* call reloadConfiguration
Persisted ==
  /\ pending # <<>>
  /\ settings' = Written(settings, Head(pending))
  /\ configuration' = settings'
  /\ pending' = Tail(pending)
  /\ UNCHANGED <<enabled, isProcessing, cache, languageConfigs, stats, pc, inv, cancelled,
                 net, ret, triggers, dispatched, dropped, hits, clearPosts, pureVars>>

\* the user edits a setting of the section; configChangeListener reloads the
\* snapshot
EditSetting(key, value) ==
  /\ Get(settings, key, Str("")) # value
  /\ settings' = [settings EXCEPT !.values = Spread(@, [k \in {key} |-> value])]
  /\ configuration' = settings'
  /\ UNCHANGED <<enabled, isProcessing, cache, languageConfigs, stats, pc, inv, cancelled,
                 net, ret, triggers, dispatched, dropped, hits, clearPosts, pending,
                 pureVars>>

\* a call of StatisticsManager.recordCompletion: the global counters, the
\* window of response times and the average
RecordCompletion(language, suggestionCount, responseTime, cacheHit) ==
  /\ stats' = recordCompletion(stats, language, suggestionCount, cacheHit)
  /\ responseTimes' = PushResponseTime(responseTimes, responseTime)
  /\ averageResponseTime' = Average(responseTimes')
  /\ arrived' = Append(arrived, responseTime)
  /\ languageStats' = LanguageCompletion(languageStats, language, suggestionCount,
                                          responseTime)
  /\ dailyStats' = DailyCompletion(dailyStats, Dates[today])
  /\ snapshot' = Shared(snapshot, languageStats', dailyStats')
  /\ UNCHANGED <<enabled, isProcessing, cache, languageConfigs, pc, inv, cancelled,
                 net, ret, triggers, dispatched, dropped, hits, clearPosts, cfgVars,
                 hashVars, dispVars, rankVars, fmtVars, valVars, extVars, globalState, today,
                 toggleVars>>

\* what no operation of the manager touches
StatFrame ==
  UNCHANGED <<enabled, isProcessing, cache, languageConfigs, pc, inv, cancelled,
              net, ret, triggers, dispatched, dropped, hits, clearPosts, cfgVars,
              hashVars, dispVars, rankVars, fmtVars, valVars, extVars, today,
              toggleVars>>

RecordAcceptance(language) ==
  /\ stats' = recordAcceptance(stats, language)
  /\ languageStats' = CountAccepted(languageStats, language)
  /\ dailyStats' = CountAccepted(dailyStats, Dates[today])
  /\ snapshot' = Shared(snapshot, languageStats', dailyStats')
  /\ StatFrame
  /\ UNCHANGED statVars

RecordCacheHit ==
  /\ stats' = recordCacheHit(stats)
  /\ StatFrame
  /\ UNCHANGED <<statVars, languageStats, dailyStats, snapshot>>

RecordError(errorType) ==
  /\ stats' = recordError(stats, errorType)
  /\ StatFrame
  /\ UNCHANGED <<statVars, languageStats, dailyStats, snapshot>>

\* a call of StatisticsManager.getStatistics; the caller keeps the object, and
\* `returned` records what the object held when it was returned
GetStatistics ==
  /\ snapshot' =
       << [ object |-> getStatistics(stats, averageResponseTime, languageStats,
                                     dailyStats),
            returned |-> getStatistics(stats, averageResponseTime, languageStats,
                                       dailyStats) ] >>
  /\ StatFrame
  /\ UNCHANGED <<stats, statVars, languageStats, dailyStats>>

\* midnight passes
NextDay ==
  /\ today' = today + 1
  /\ UNCHANGED <<pipeVars, hashVars, dispVars, rankVars, fmtVars, valVars, statVars,
                 extVars, languageStats, dailyStats, snapshot, toggleVars>>

\* StatisticsManager.saveStatistics, run by the timer of setupAutoSave
SaveStatistics ==
  /\ globalState # << [stats |-> stats, averageResponseTime |-> averageResponseTime] >>
  /\ globalState' = << [stats |-> stats, averageResponseTime |-> averageResponseTime] >>
  /\ StatFrame
  /\ UNCHANGED <<stats, responseTimes, averageResponseTime, arrived, languageStats,
                 dailyStats, snapshot>>

\* deactivate saves the statistics; the next activation constructs a new
\* manager, whose loadStatistics takes the saved stats and whose
\* responseTimes is empty
Restart ==
  /\ globalState' = << [stats |-> stats, averageResponseTime |-> averageResponseTime] >>
  /\ stats' = globalState'[1].stats
  /\ averageResponseTime' = globalState'[1].averageResponseTime
  /\ responseTimes' = <<>>
  /\ arrived' = <<>>
  /\ snapshot' = <<>>
  /\ StatFrame
  /\ UNCHANGED <<languageStats, dailyStats>>

\* ---------------------------------------------------------- specifications
NoContext ==
  [ currentLine |-> "", filePath |-> Undefined, previousLines |-> <<>>,
    position |-> [line |-> 0, character |-> 0], language |-> "",
    functionContext |-> <<>>, classContext |-> <<>>, imports |-> <<>>,
    variables |-> <<>>, fileExtension |-> Undefined, indentStyle |-> "spaces",
    indentSize |-> 4, contextWindow |-> 1024 ]

DispIdle ==
  /\ dispIn = <<>>
  /\ dispOut = <<>>

FmtIdle ==
  /\ fmtIn = <<>>
  /\ fmtOut = <<>>

RankIdle ==
  /\ rankIn = <<>>
  /\ rankOut = <<>>

HashIdle ==
  /\ hashIn = <<NoContext, NoContext>>
  /\ hashOut = <<>>

\* no pure function is under check
ValIdle ==
  /\ valIn = NoSettings
  /\ valOut = <<>>

\* the manager as its constructor leaves it when nothing was saved
StatIdle ==
  /\ responseTimes = <<>>
  /\ averageResponseTime = <<0, 1>>
  /\ globalState = <<>>
  /\ arrived = <<>>

ExtIdle ==
  /\ extIn = [document |-> <<>>, position |-> [line |-> 0, character |-> 0]]
  /\ extOut = <<>>

\* the tables of a manager that loaded nothing, on the first day, and no
\* snapshot handed out
TallyIdle ==
  /\ languageStats = EmptyObject
  /\ dailyStats = EmptyObject
  /\ today = 1
  /\ snapshot = <<>>

\* 'enabled' not set by the user counts as true; no toggle has run
ToggleIdle ==
  /\ enabledSetting = TRUE
  /\ enabledUpdates = <<>>
  /\ announced = <<>>

MoreIdle == ValIdle /\ StatIdle /\ ExtIdle /\ TallyIdle /\ ToggleIdle

PureIdle == HashIdle /\ DispIdle /\ RankIdle /\ FmtIdle /\ MoreIdle

Init == PipeInit /\ PureIdle

Next ==
  \/ \E i \in Invs, doc \in Documents : triggers < MaxTriggers /\ Trigger(i, doc)
  \/ \E i \in Invs, reply \in Replies : Resolve(i, reply)
  \/ \E i \in Invs : Cancel(i)
  \/ ClearCache
  \/ \E e \in BOOLEAN : ReloadEnabled(e)

Spec == Init /\ [][Next]_vars

\* the transport settles every POST: axios rejects after requestTimeout at
\* the latest, so a pending invocation is resumed
FairSpec == Spec /\ WF_vars(\E i \in Invs, reply \in Replies : Resolve(i, reply))

TypeOK ==
  /\ enabled \in BOOLEAN
  /\ isProcessing \in BOOLEAN
  /\ \A i \in Invs : pc[i] \in {"idle", "awaiting"}
  /\ triggers \in Nat /\ dispatched \in Nat /\ dropped \in Nat
  /\ clearPosts \in Nat

\* ---------------------------------------- the clear-cache command (ClearSpec)
\* triggers and their replies, with the command run between them
ClearNext ==
  \/ \E i \in Invs, doc \in Documents : triggers < MaxTriggers /\ Trigger(i, doc)
  \/ \E i \in Invs, reply \in Replies : Resolve(i, reply)
  \/ clearPosts < MaxClearCommands /\ ClearCacheCommand

ClearSpec == Init /\ [][ClearNext]_vars

\* ------------------------------------------- settings updates (ConfigSpec)
MaxPending == 2         \* configuration.update calls not yet written at a time

ConfigLanguages == {"python", "go"}

\* the partial overrides handed to updateLanguageConfig
UpdateConfigs == { [maxSuggestions |-> Num(5)] }

\* the edits of global settings
SettingEdits == { <<"maxSuggestions", Num(2)>> }

\* the user settings the extension may be activated with: none, or an
\* override for go whose maxSuggestions is not a number
InitialSettings ==
  { NoSettings,
    [ values |-> EmptyObject,
      languages |-> [l \in {"go"} |->
                       << [maxSuggestions |-> Str("many"), indentStyle |-> Str("tabs")] >>] ] }

ConfigInit ==
  /\ CoreInit
  /\ PureIdle
  /\ settings \in InitialSettings
  /\ configuration = settings
  /\ pending = <<>>

ConfigNext ==
  \/ \E language \in ConfigLanguages, config \in UpdateConfigs :
       Len(pending) < MaxPending /\ updateLanguageConfig(language, config)
  \/ \E language \in ConfigLanguages :
       Len(pending) < MaxPending /\ removeLanguageConfig(language)
  \/ Persisted
  \/ \E e \in SettingEdits : EditSetting(e[1], e[2])

ConfigSpec == ConfigInit /\ [][ConfigNext]_vars

\* ------------------------------------- the suggestion limit (LimitSpec)
\* the values the user sets maxSuggestions to
LimitEdits == { <<"maxSuggestions", Num(1)>>, <<"maxSuggestions", Num(3)>> }

\* the service answers a request with at most max_suggestions suggestions
WithinLimit(i, reply) ==
  \A r \in net : r.inv = i => Len(reply.suggestions) <= r.max_suggestions[2]

LimitNext ==
  \/ \E i \in Invs, doc \in Documents : triggers < MaxTriggers /\ Trigger(i, doc)
  \/ \E i \in Invs, reply \in Replies : WithinLimit(i, reply) /\ Resolve(i, reply)
  \/ \E e \in LimitEdits : EditSetting(e[1], e[2])

LimitSpec == Init /\ [][LimitNext]_vars

\* ------------------------------- triggers under overrides (OverrideSpec)
\* the override the user gives to python or go
OverrideConfigs == { [indentSize |-> Num(2)] }

OverrideNext ==
  \/ \E i \in Invs, doc \in Documents : triggers < MaxTriggers /\ Trigger(i, doc)
  \/ \E i \in Invs, reply \in Replies : Resolve(i, reply)
  \/ \E language \in ConfigLanguages, config \in OverrideConfigs :
       pending = <<>> /\ updateLanguageConfig(language, config)
  \/ Persisted

OverrideSpec == Init /\ [][OverrideNext]_vars

\* ------------------------------------------- filling the cache (CacheSpec)
\* a python document whose current line is the text of the number n
FillDoc(n) ==
  Doc("python", "py", TRUE,
      RawContext(ToString(n), <<>>, [line |-> 0, character |-> 1], <<>>, <<>>, <<>>))

\* the lines the editor comes back to: the first one typed and the first
\* one that survives an eviction
OldLines == {1, EvictCount + 1}

\* the next line is one never typed before, or one of OldLines
FillDocuments == { FillDoc(n) : n \in {dispatched + 1} \cup OldLines }

FillReplies == { Reply("ok", 200, "success", <<Suggestion(<<"x">>, 900)>>, FALSE) }

FillNext ==
  \/ \E i \in Invs, doc \in FillDocuments :
       /\ triggers < MaxFillTriggers
       /\ Trigger(i, doc)
       /\ stats'.cacheHits <= MaxFillHits
       /\ dropped' <= MaxFillDropped
  \/ \E i \in Invs, reply \in FillReplies : Resolve(i, reply)

CacheSpec == Init /\ [][FillNext]_vars

\* ------------------------------------------------ fingerprints (HashSpec)
Tail10 == <<"l1", "l2", "l3", "l4", "l5", "l6", "l7", "l8", "l9", "l10">>
Tail10b == <<"k1", "l2", "l3", "l4", "l5", "l6", "l7", "l8", "l9", "l10">>

HashPreviousLines ==
  { <<>>, <<"l10">>, Tail10, <<"old1">> \o Tail10, <<"old2", "old1">> \o Tail10,
    Tail10b, <<"old1">> \o Tail10b }

Stack == << [name |-> "Stack", methods |-> <<"push">>, properties |-> <<"items">>] >>

\* the fields generateContextHash does not read, in three variants
HashUnprojected ==
  { [position |-> [line |-> 11, character |-> 4], imports |-> <<>>, variables |-> <<>>,
     contextWindow |-> 2048, filePath |-> Undefined],
    [position |-> [line |-> 40, character |-> 4], imports |-> <<"import os">>,
     variables |-> <<[name |-> "x", type |-> "number", scope |-> "local"]>>,
     contextWindow |-> 2048, filePath |-> Undefined],
    [position |-> [line |-> 11, character |-> 4], imports |-> <<>>, variables |-> <<>>,
     contextWindow |-> 1024, filePath |-> "/w/fib.py"] }

HashContexts ==
  { [ currentLine |-> "    return ", filePath |-> u.filePath, previousLines |-> prev,
      position |-> u.position, language |-> "python", functionContext |-> Fibonacci,
      classContext |-> cls, imports |-> u.imports, variables |-> u.variables,
      fileExtension |-> ".py", indentStyle |-> "spaces", indentSize |-> 4,
      contextWindow |-> u.contextWindow ] :
    prev \in HashPreviousLines, cls \in {<<>>, Stack}, u \in HashUnprojected }

HashInit ==
  /\ PipeInit
  /\ DispIdle
  /\ RankIdle
  /\ FmtIdle
  /\ MoreIdle
  /\ hashIn \in HashContexts \X HashContexts
  /\ hashOut = <<>>

\* both call sites fingerprint both contexts: the cache key of
\* provideCompletionItems and the context_hash of sendFeedback
ApplyHash ==
  /\ hashOut = <<>>
  /\ hashOut' = << generateContextHash(hashIn[1]), generateContextHash(hashIn[2]),
                   apiGenerateContextHash(hashIn[1]), apiGenerateContextHash(hashIn[2]) >>
  /\ UNCHANGED <<hashIn, pipeVars, dispVars, rankVars, fmtVars, moreVars>>

HashNext == ApplyHash

HashSpec == HashInit /\ [][HashNext]_vars

\* ------------------------------------------- validation (ValidateSpec)
\* single settings: each numeric one just outside and just inside its range,
\* a maxSuggestions that is no number, model and apiUrl values
ValidateEdits ==
  { <<"maxSuggestions", Num(0)>>, <<"maxSuggestions", Num(1)>>,
    <<"maxSuggestions", Num(10)>>, <<"maxSuggestions", Num(11)>>,
    <<"maxSuggestions", Str("many")>>,
    <<"temperature", Num(-1)>>, <<"temperature", Num(0)>>,
    <<"temperature", Num(200)>>, <<"temperature", Num(300)>>,
    <<"maxContextLines", Num(9)>>, <<"maxContextLines", Num(10)>>,
    <<"maxContextLines", Num(200)>>, <<"maxContextLines", Num(201)>>,
    <<"topP", Num(-1)>>, <<"topP", Num(0)>>, <<"topP", Num(100)>>, <<"topP", Num(101)>>,
    <<"topK", Num(0)>>, <<"topK", Num(1)>>, <<"topK", Num(100)>>, <<"topK", Num(101)>>,
    <<"repetitionPenalty", Num(49)>>, <<"repetitionPenalty", Num(50)>>,
    <<"repetitionPenalty", Num(200)>>, <<"repetitionPenalty", Num(201)>>,
    <<"contextWindow", Num(255)>>, <<"contextWindow", Num(256)>>,
    <<"contextWindow", Num(4096)>>, <<"contextWindow", Num(4097)>>,
    <<"model", Str("gpt2")>>, <<"model", Str("codegpt")>> }

\* what only the general section has, and what only a language entry has
GeneralOnlyEdits ==
  { <<"apiUrl", Str("https://api.example.com")>>, <<"apiUrl", Str("ftp://host")>>,
    <<"apiUrl", Str("localhost")>>, <<"apiUrl", Str("")>> }

EntryOnlyEdits ==
  { <<"indentSize", Num(0)>>, <<"indentSize", Num(1)>>,
    <<"indentSize", Num(8)>>, <<"indentSize", Num(9)>>,
    <<"indentStyle", Str("tabs")>>, <<"indentStyle", Str("wide")>> }

Single(e) == [k \in {e[1]} |-> e[2]]

\* the general settings: none, one, or two
ValidateValues ==
  {EmptyObject}
    \cup { Single(e) : e \in ValidateEdits \cup GeneralOnlyEdits }
    \cup { Spread(Single(e), Single(f)) :
             e \in { <<"temperature", Num(300)>>, <<"topK", Num(0)>> },
             f \in ValidateEdits \cup GeneralOnlyEdits }

\* the language entries: null, {} or an object with one or two settings
ValidateEntries ==
  { <<>>, <<EmptyObject>> }
    \cup { <<Single(e)>> : e \in ValidateEdits \cup EntryOnlyEdits }
    \cup { <<Spread(Single(<<"indentSize", Num(9)>>), Single(e))>> : e \in ValidateEdits }

\* the 'languages' setting: not set, one entry, or an entry for python next
\* to a go entry that is fine or null
ValidateLanguages ==
  {EmptyObject}
    \cup { [l \in {k} |-> e] : k \in {"python", "go"}, e \in ValidateEntries }
    \cup { [l \in {"python", "go"} |-> IF l = "python" THEN e ELSE g] :
             e \in ValidateEntries, g \in { <<>>, <<Single(<<"topK", Num(50)>>)>> } }

ValidateInit ==
  /\ PipeInit
  /\ HashIdle
  /\ DispIdle
  /\ RankIdle
  /\ FmtIdle
  /\ StatIdle
  /\ ExtIdle
  /\ TallyIdle
  /\ ToggleIdle
  /\ valIn \in [values : ValidateValues, languages : ValidateLanguages]
  /\ valOut = <<>>

\* a call of validateConfiguration on the snapshot
Validate ==
  /\ valOut = <<>>
  /\ valOut' = << validateConfiguration(valIn) >>
  /\ UNCHANGED <<valIn, pipeVars, hashVars, dispVars, rankVars, fmtVars, statVars, extVars,
                 tallyVars, toggleVars>>

ValidateNext == Validate

ValidateSpec == ValidateInit /\ [][ValidateNext]_vars

\* ---------------------------------------- the latency window (WindowSpec)
MaxCompletions == 103   \* recordCompletion calls over all sessions
MaxRestartAt == 2       \* the editor is shut down within that many of them

\* the response times the n-th completion of a session may take: the first
\* two and the one that makes the window overflow are fast or slow
ResponseTimesAt(n) ==
  IF n \in {1, 2, maxResponseTimeHistory + 1} THEN {10, 250} ELSE {10}

WindowNext ==
  \/ \E responseTime \in ResponseTimesAt(Len(arrived) + 1) :
       /\ stats.totalRequests < MaxCompletions
       /\ RecordCompletion("python", 1, responseTime, FALSE)
  \/ arrived # <<>> /\ stats.totalRequests <= MaxRestartAt /\ Restart

WindowSpec == Init /\ [][WindowNext]_vars

\* ------------------------------------------------- statistics (StatsSpec)
MaxRecords == 4         \* counted requests, acceptances, cache hits and errors

Recorded ==
  stats.totalRequests + stats.acceptedSuggestions + stats.cacheHits + stats.errorCount

\* the record operations, the save of the timer, and a shutdown followed by
\* the next activation
StatsNext ==
  \/ \E suggestionCount \in {0, 2}, cacheHit \in BOOLEAN :
       /\ Recorded + (IF cacheHit THEN 2 ELSE 1) <= MaxRecords
       /\ RecordCompletion("python", suggestionCount, 10, cacheHit)
  \/ Recorded < MaxRecords /\ RecordAcceptance("python")
  \/ Recorded < MaxRecords /\ RecordCacheHit
  \/ Recorded < MaxRecords /\ RecordError("api_error")
  \/ SaveStatistics
  \/ Restart

StatsSpec == Init /\ [][StatsNext]_vars

\* ------------------------------------ per-language and per-day (TallySpec)
MaxDays == 2            \* days the clock passes through

TallyLanguages == {"python", "go"}

\* the record operations for two languages, midnight, and getStatistics
TallyNext ==
  \/ \E language \in TallyLanguages, suggestionCount \in {0, 2}, cacheHit \in BOOLEAN :
       /\ Recorded + (IF cacheHit THEN 2 ELSE 1) <= MaxRecords
       /\ RecordCompletion(language, suggestionCount, 10, cacheHit)
  \/ \E language \in TallyLanguages :
       Recorded < MaxRecords /\ RecordAcceptance(language)
  \/ Recorded < MaxRecords /\ RecordCacheHit
  \/ Recorded < MaxRecords /\ RecordError("api_error")
  \/ today < MaxDays /\ NextDay
  \/ GetStatistics

TallySpec == Init /\ [][TallyNext]_vars

\* ------------------------------------------ the toggle command (ToggleSpec)
MaxToggles == 4         \* runs of the toggle command

\* the user may have set 'enabled' before the command is first used; then the
\* command runs and the editor writes its updates
ToggleNext ==
  \/ \E e \in BOOLEAN : announced = <<>> /\ ReloadEnabled(e)
  \/ Len(announced) < MaxToggles /\ ToggleCommand
  \/ EnabledPersisted

ToggleSpec == Init /\ [][ToggleNext]_vars

\* ---------------------------------------- context extraction (ExtractSpec)
MaxLines == 53          \* lines of the longest document

\* a one-line document, a short one and one longer than maxContextLines
DocLengths == {1, 3, MaxLines}

\* the lines of a document of n lines that are not an assignment
Slots(n) == {0, 1, n - 1} \cap 0..(n - 1)

\* the documents with headers and calls, and those with import lines
ExtractDocuments ==
  UNION { { [k \in 1..n |-> IF k - 1 \in Slots(n) THEN f[k - 1] ELSE Assign] :
            f \in [Slots(n) -> LineTexts]
                    \cup [Slots(n) -> {ImportOs, IndentedImport, FromOs, Assign}] } :
          n \in DocLengths }

\* a cursor on any line, at a column of that line
ExtractInputs ==
  { [document |-> d, position |-> [line |-> l, character |-> c]] :
      d \in ExtractDocuments, l \in 0..(MaxLines - 1), c \in {0, 3, 9} }

ExtractInit ==
  /\ PipeInit
  /\ HashIdle
  /\ DispIdle
  /\ RankIdle
  /\ FmtIdle
  /\ ValIdle
  /\ StatIdle
  /\ TallyIdle
  /\ ToggleIdle
  /\ extIn \in { in \in ExtractInputs :
                   /\ in.position.line < Len(in.document)
                   /\ in.position.character <= Len(lineAt(in.document, in.position.line)) }
  /\ extOut = <<>>

\* a call of extractContext
Extract ==
  /\ extOut = <<>>
  /\ extOut' = << extractContext(extIn.document, extIn.position) >>
  /\ UNCHANGED <<extIn, pipeVars, hashVars, dispVars, rankVars, fmtVars, valVars, statVars,
                 tallyVars, toggleVars>>

ExtractNext == Extract

ExtractSpec == ExtractInit /\ [][ExtractNext]_vars

\* ------------------------------------------------- dispatch (DispatchSpec)
\* the members of a response body that a reply may lack; contextHash is one
\* the validator does not ask for
ShapeFields ==
  { "body", "suggestions", "metadata", "processingTimeMs", "modelVersion",
    "cacheHit", "status", "contextHash" }

DispatchReplies ==
     { Malformed(Reply("ok", 200, st, sg, FALSE), lacks) :
         st \in {"success", "partial"},
         sg \in {<<>>, <<Suggestion(<<"n">>, 500)>>},
         lacks \in SUBSET ShapeFields }
  \cup { Reply("http", code, "", <<>>, FALSE) : code \in {304, 404, 500, 503} }
  \cup { Reply(k, 0, "", <<>>, FALSE) : k \in {"noresponse", "timeout"} }

DispatchInit ==
  /\ PipeInit
  /\ HashIdle
  /\ RankIdle
  /\ FmtIdle
  /\ MoreIdle
  /\ dispIn \in DispatchReplies
  /\ dispOut = <<>>

\* httpClient.post settles and getSuggestions resolves
Settle ==
  /\ dispOut = <<>>
  /\ dispOut' = << getSuggestionsResult(dispIn) >>
  /\ UNCHANGED <<dispIn, pipeVars, hashVars, rankVars, fmtVars, moreVars>>

DispatchNext == Settle

DispatchSpec == DispatchInit /\ [][DispatchNext]_vars

\* ------------------------------------------------------ ranking (RankSpec)
MaxRankings == 2        \* conversions of the same response in a run of RankSpec

\* confidences in thousandths, around the rounding point and around the
\* value from which the language bonus takes the sort value below zero
ConfidenceSamples == {0, 1, 499, 500, 501, 899, 900, 901, 902, 910, 950, 990, 999, 1000}

RankSuggestion(text, confidence, languageSpecific) ==
  [Suggestion(text, confidence) EXCEPT !.languageSpecific = languageSpecific]

\* the context the conversions of RankSpec are made for
RankContext == [NoContext EXCEPT !.language = "python"]

RankInit ==
  /\ PipeInit
  /\ HashIdle
  /\ DispIdle
  /\ FmtIdle
  /\ MoreIdle
  /\ rankIn \in { << RankSuggestion(<<"1">>, c1, l1), RankSuggestion(<<"2">>, c2, l2) >> :
                     c1 \in ConfidenceSamples, c2 \in ConfidenceSamples,
                     l1 \in BOOLEAN, l2 \in BOOLEAN }
  /\ rankOut = <<>>

\* one more conversion of the same suggestions
Rank ==
  /\ Len(rankOut) < MaxRankings
  /\ rankOut' = Append(rankOut, convertToCompletionItems(rankIn, RankContext))
  /\ UNCHANGED <<rankIn, pipeVars, hashVars, dispVars, fmtVars, moreVars>>

RankNext == Rank

RankSpec == RankInit /\ [][RankNext]_vars

\* -------------------------------------------------- formatting (FormatSpec)
MaxTextLen == 5         \* characters of a suggestion text in a run of FormatSpec

\* a space, a tab, a character that is not whitespace, and the line break
TextChars == {" ", "\t", "x", "\n"}

Texts == UNION { [1..n -> TextChars] : n \in 0..MaxTextLen }

\* no entry for the language, the entry of go (tabs), the one of javascript
\* (two spaces)
FormatConfigs == { <<>>, <<DefaultConfigs.go>>, <<DefaultConfigs.javascript>> }

FormatInit ==
  /\ PipeInit
  /\ HashIdle
  /\ DispIdle
  /\ RankIdle
  /\ MoreIdle
  /\ fmtIn \in { [text |-> t, config |-> c] : t \in Texts, c \in FormatConfigs }
  /\ fmtOut = <<>>

\* convertToCompletionItems sets item.insertText
Format ==
  /\ fmtOut = <<>>
  /\ fmtOut' = << formatSuggestionText(fmtIn.text, NoContext, fmtIn.config) >>
  /\ UNCHANGED <<fmtIn, pipeVars, hashVars, dispVars, rankVars, moreVars>>

\* the formatted text is formatted once more, under the same config
Reformat ==
  /\ Len(fmtOut) = 1
  /\ fmtOut' = Append(fmtOut, formatSuggestionText(fmtOut[1], NoContext, fmtIn.config))
  /\ UNCHANGED <<fmtIn, pipeVars, hashVars, dispVars, rankVars, moreVars>>

FormatNext == Format \/ Reformat

FormatSpec == FormatInit /\ [][FormatNext]_vars

\* ------------------------------------------------------------------ claims
Awaiting == { i \in Invs : pc[i] = "awaiting" }

CacheKeys(c) == { c[k].key : k \in 1..Len(c) }

\* the fingerprint provideCompletionItems computes for a document
KeyOf(doc) == generateContextHash(enhanceContextWithLanguageInfo(doc.extracted, doc))

\* C1: at most one invocation is past the isProcessing guard at any time, and
\* at most one getSuggestions network call is outstanding at any time.
C1_SingleFlight ==
  /\ Cardinality(Awaiting) <= 1
  /\ Cardinality(net) <= 1
  /\ \A r \in net : r.inv \in Awaiting

\* a trigger has been dropped while one invocation holds the guard and its
\* network call is outstanding
C1_Witness ==
  /\ dropped > 0
  /\ Cardinality(Awaiting) = 1
  /\ Cardinality(net) = 1
  /\ isProcessing

\* C2: a trigger that arrives while an invocation is in flight returns [] and
\* changes nothing (no dispatch then or later, cache, statistics and guard as
\* they were, no new invocation pending); so the completions recorded never
\* exceed the dispatches that were answered, nor these the triggers that were
\* not dropped.
C2_DroppedTriggerChangesNothing ==
  /\ [][ (triggers' = triggers + 1 /\ enabled /\ isProcessing)
           => /\ ret' = Returned("dropped", <<>>, <<>>)
              /\ dropped' = dropped + 1
              /\ UNCHANGED <<cache, stats, isProcessing, net, dispatched, pc, inv>> ]_vars
  /\ [](stats.totalRequests <= dispatched - Cardinality(net))
  /\ [](dispatched <= triggers - dropped)

\* two back-to-back triggers, the second dropped, the first answered with
\* success: exactly one completion is recorded
C2_Witness ==
  /\ triggers = 2
  /\ dropped = 1
  /\ dispatched = 1
  /\ ret.via = "dispatch"
  /\ stats.totalRequests = 1
  /\ ~isProcessing

\* C3: the guard is held only while an invocation awaits its dispatch, every
\* return of an invocation that acquired the guard leaves isProcessing false
\* on every path, and every awaiting invocation eventually returns with the
\* guard released (the dispatch call eventually resolves: FairSpec).
C3_GuardAlwaysReleased ==
  /\ [](isProcessing => Awaiting # {})
  /\ [][ /\ (\E i \in Invs : pc[i] = "awaiting" /\ pc'[i] = "idle") => ~isProcessing'
         /\ (triggers' = triggers + 1 /\ enabled /\ ~isProcessing /\ pc' = pc)
              => ~isProcessing' ]_vars
  /\ \A i \in Invs : (pc[i] = "awaiting") ~> (pc[i] = "idle" /\ ~isProcessing)

\* an invocation returned through the catch block after its dispatch had
\* succeeded, and the guard is free
C3_Witness ==
  /\ ret.via = "exception"
  /\ ret.resp # <<>>
  /\ dispatched > 0
  /\ Awaiting = {}
  /\ ~isProcessing

\* C4: when the caller cancels while the dispatch is pending, the network
\* call is aborted, the guard is released at once and the invocation returns
\* an empty result.
C4_CancelReleasesGuard ==
  [][ \A i \in Invs :
        (~cancelled[i] /\ cancelled'[i] /\ pc[i] = "awaiting")
          => /\ pc'[i] = "idle"
             /\ ~isProcessing'
             /\ \A r \in net' : r.inv # i
             /\ ret'.items = <<>> ]_vars

\* C5: every entry of the cache holds a response whose status is 'success'.
C5_OnlySuccessCached ==
  \A k \in 1..Len(cache) : cache[k].resp.status = "success"

\* the dispatcher returned a response that is not a success (partial, or an
\* error response) while the cache holds entries
C5_Witness ==
  /\ ret.via = "error"
  /\ ret.resp # <<>>
  /\ ret.resp[1].status \in {"partial", "error"}
  /\ cache # <<>>

\* C6: the cache never holds more than 100 entries once an invocation has
\* returned.
C6_CacheBound == Len(cache) <= MaxCacheSize

\* more responses than the capacity have been inserted
C6_Witness ==
  /\ stats.totalRequests > MaxCacheSize
  /\ Len(cache) <= MaxCacheSize
  /\ Awaiting = {}

\* C7: the insertion that takes a full cache of 100 entries to 101 leaves
\* the 50 youngest of the old entries, in their order, followed by the entry
\* just inserted (51 entries): the 50 oldest-inserted are gone, whether or
\* not they were served from the cache in between.
C7_EvictsOldestHalf ==
  [][ (Len(cache) = MaxCacheSize /\ cache' # cache /\ cache' # <<>>)
        => /\ Len(cache') = MaxCacheSize + 1 - EvictCount
           /\ \A k \in 1..(MaxCacheSize - EvictCount) : cache'[k] = cache[EvictCount + k]
           /\ cache'[Len(cache')].key \notin CacheKeys(cache) ]_vars

\* an eviction has happened and removed an entry that had been served from
\* the cache, while the 51 entries left are all younger
C7_Witness ==
  /\ Len(cache) = MaxCacheSize + 1 - EvictCount
  /\ stats.totalRequests = MaxCacheSize + 1
  /\ \E key \in hits : ~CacheHas(cache, key)

\* C8 (as stated): a trigger whose fingerprint is in the cache is served from
\* the cache - no network call, one cache-hit statistic - and the response it
\* is served from reports metadata.cacheHit == true.
C8_ServedFromCacheFlagTrue ==
  [][ \A i \in Invs, doc \in Documents :
        (Trigger(i, doc) /\ enabled /\ ~isProcessing /\ doc.lineExists
           /\ CacheHas(cache, KeyOf(doc)))
          => /\ dispatched' = dispatched /\ net' = net /\ pc' = pc
             /\ stats'.cacheHits = stats.cacheHits + 1
             /\ ret'.resp = <<CacheGet(cache, KeyOf(doc))>>
             /\ ret'.resp[1].cacheHit = TRUE ]_vars

\* C8 (amended): a trigger that is accepted (extension enabled, no invocation
\* in flight) and whose fingerprint is in the cache is served from the cached
\* response: no network call is made, the cache is left as it is, exactly one
\* cache-hit statistic is recorded and totalRequests is unchanged; the
\* response it is served from is the one stored by the first dispatch, with
\* the metadata.cacheHit the service reported then.
C8_ServedFromCache ==
  [][ \A i \in Invs, doc \in Documents :
        (Trigger(i, doc) /\ enabled /\ ~isProcessing /\ doc.lineExists
           /\ CacheHas(cache, KeyOf(doc)))
          => /\ dispatched' = dispatched /\ net' = net /\ pc' = pc
             /\ cache' = cache
             /\ stats'.cacheHits = stats.cacheHits + 1
             /\ stats'.totalRequests = stats.totalRequests
             /\ ret'.via \in {"cache", "exception"}
             /\ ret'.resp = <<CacheGet(cache, KeyOf(doc))>>
             /\ (ret'.via = "cache" =>
                   Len(ret'.items) = Len(CacheGet(cache, KeyOf(doc)).suggestions)) ]_vars

\* the second of two triggers was served from the cache entry of the first,
\* whose response the service had flagged cacheHit = false
C8_Witness ==
  /\ triggers = 2
  /\ dispatched = 1
  /\ ret.via = "cache"
  /\ ret.items # <<>>
  /\ ret.resp[1].cacheHit = FALSE
  /\ stats.cacheHits = 1
  /\ stats.totalRequests = 1

\* the fields generateContextHash is documented to project
AgreeOnProjection(a, b) ==
  /\ a.currentLine = b.currentLine
  /\ SliceLast(a.previousLines, HashTailLines) = SliceLast(b.previousLines, HashTailLines)
  /\ a.language = b.language
  /\ a.functionContext = b.functionContext
  /\ a.classContext = b.classContext
  /\ a.fileExtension = b.fileExtension
  /\ a.indentStyle = b.indentStyle
  /\ a.indentSize = b.indentSize

\* C9: two contexts that agree on the projected fields get the same key from
\* generateContextHash, whatever their unprojected fields.
C9_FingerprintIgnoresUnprojected ==
  (hashOut # <<>> /\ AgreeOnProjection(hashIn[1], hashIn[2])) => hashOut[1] = hashOut[2]

\* two contexts that agree on the projection and differ in every unprojected
\* field at once, previous lines older than the last 10 included
C9_Witness ==
  /\ hashOut # <<>>
  /\ AgreeOnProjection(hashIn[1], hashIn[2])
  /\ hashOut[1] = hashOut[2]
  /\ Len(hashIn[1].previousLines) > HashTailLines
  /\ Len(hashIn[2].previousLines) > Len(hashIn[1].previousLines)
  /\ hashIn[1].position # hashIn[2].position
  /\ hashIn[1].imports # hashIn[2].imports
  /\ hashIn[1].variables # hashIn[2].variables

\* C10: the cache key of CompletionProvider.generateContextHash is equal for
\* two contexts exactly when the context_hash of APIClient.generateContextHash
\* is equal for them.
C10_OneProjection ==
  hashOut # <<>> => ((hashOut[1] = hashOut[2]) <=> (hashOut[3] = hashOut[4]))

\* a failure of a dispatch: no 2xx reply, or a 2xx body without one of the
\* members a SuggestionResponse has
DispatchFailure(reply) ==
  \/ reply.kind # "ok"
  \/ \E f \in {"suggestions", "processingTimeMs", "modelVersion", "cacheHit", "status"} :
       Lacking(reply, f)

Resolves == \E i \in Invs : pc[i] = "awaiting" /\ pc'[i] = "idle"

\* a step in which an invocation returns: a trigger that does not suspend, or
\* a pending invocation that gets its response
Returns == (triggers' = triggers + 1 /\ pc' = pc) \/ Resolves

\* C12: when getSuggestions resolves to a response whose status is not
\* success, the invocation returns [] and records exactly one error
\* (errorCount + 1); the cache, totalRequests and totalSuggestions stay as
\* they were.
C12_NonSuccessCountsOneError ==
  [][ Resolves /\ ret'.resp # <<>> /\ ret'.resp[1].status # "success" =>
        /\ ret'.items = <<>>
        /\ stats'.errorCount = stats.errorCount + 1
        /\ cache' = cache
        /\ stats'.totalRequests = stats.totalRequests
        /\ stats'.totalSuggestions = stats.totalSuggestions ]_vars

\* a partial response was answered with [] and counted as an error while the
\* cache kept the entry it had
C12_Witness ==
  /\ ret.via = "error"
  /\ ret.resp # <<>>
  /\ ret.resp[1].status = "partial"
  /\ stats.errorCount = 1
  /\ stats.totalRequests = 1
  /\ Len(cache) = 1

\* C13: an exception raised after the guard was acquired (in extraction, or
\* in conversion of a cached or a fresh response) is caught: the invocation
\* returns [], records exactly one error and leaves the guard released.
C13_ExceptionsAreCaught ==
  [][ Returns /\ ret'.via = "exception" =>
        /\ ret'.items = <<>>
        /\ stats'.errorCount = stats.errorCount + 1
        /\ ~isProcessing'
        /\ pc' \in [Invs -> {"idle"}] ]_vars

\* conversion threw on a fresh success response: the response was cached and
\* counted, one error was recorded, and the guard is free
C13_Witness ==
  /\ ret.via = "exception"
  /\ ret.resp # <<>>
  /\ ret.resp[1].status = "success"
  /\ stats.errorCount = 1
  /\ stats.totalRequests = 1
  /\ stats.cacheHits = 0
  /\ ~isProcessing

\* C14: a POST that gets no reply within the request timeout (no response, the
\* request that was sent, code ECONNABORTED) resolves to an error response
\* whose errorMessage is the timeout message, not the one of an unreachable
\* network.
C14_TimeoutClassified ==
  dispOut # <<>> /\ dispIn.kind = "timeout" =>
    /\ dispOut[1].status = "error"
    /\ dispOut[1].suggestions = <<>>
    /\ dispOut[1].errorMessage = <<"Request timeout">>

C16_ClearCommandEmptiesCache ==
  [][ clearPosts' = clearPosts + 1 => cache' = <<>> ]_vars

\* C17: a trigger that arrives while the extension is disabled returns []
\* at once: the guard is not acquired, the cache is neither read nor written,
\* nothing is dispatched and no statistic is recorded.
C17_DisabledTriggerDoesNothing ==
  [][ triggers' = triggers + 1 /\ ~enabled =>
        /\ ret' = Returned("disabled", <<>>, <<>>)
        /\ UNCHANGED <<isProcessing, cache, stats, pc, inv, net, dispatched, dropped, hits>>
    ]_vars

\* a trigger was answered as disabled while an earlier invocation was still
\* awaiting its reply
C17_Witness ==
  /\ ret.via = "disabled"
  /\ ~enabled
  /\ isProcessing
  /\ Cardinality(net) = 1
  /\ stats = ZeroStats

\* C18: a trigger for a document whose language is not in the language table
\* yields no completions: nothing is dispatched, the cache is neither read nor
\* written, and the invocation returns without leaving the guard held.
C18_UnsupportedLanguageRejected ==
  [][ (\E i \in Invs, doc \in Documents :
          /\ doc.languageId \notin DOMAIN languageConfigs
          /\ Trigger(i, doc)) =>
        /\ ret'.items = <<>>
        /\ dispatched' = dispatched
        /\ net' = net
        /\ cache' = cache
        /\ hits' = hits
        /\ pc' = pc
        /\ isProcessing' => isProcessing ]_vars

\* a plaintext trigger was rejected while the cache held an entry, and the
\* guard is free
C18_Witness ==
  /\ ret.via = "unsupported"
  /\ Len(cache) = 1
  /\ dispatched = 1
  /\ net = {}
  /\ ~isProcessing

\* the composite score of a suggestion
Score(suggestion) ==
  Round999(suggestion.confidence) + (IF suggestion.languageSpecific THEN 100 ELSE 0)

\* the UTF-16 code unit of a character of a sort key
CodeUnit(ch) ==
  CASE ch = "-" -> 45
    [] ch = "0" -> 48 [] ch = "1" -> 49 [] ch = "2" -> 50 [] ch = "3" -> 51
    [] ch = "4" -> 52 [] ch = "5" -> 53 [] ch = "6" -> 54 [] ch = "7" -> 55
    [] ch = "8" -> 56 [] ch = "9" -> 57

\* a < b for two strings: by code units, a proper prefix first
StringLess(a, b) ==
  \E k \in 1..(Len(b)) :
    /\ \A j \in 1..(k - 1) : j <= Len(a) /\ a[j] = b[j]
    /\ \/ k = Len(a) + 1
       \/ k <= Len(a) /\ CodeUnit(a[k]) < CodeUnit(b[k])

\* C19: the ranking of a suggestion set is descending composite score, ties
\* by response order: of two suggestions with confidence in [0,1] the one with
\* the higher score gets the lexicographically smaller sortText, the returned
\* list keeps the response order, and every conversion of the same set gives
\* the same result.
C19_RankingFollowsScore ==
  \A n \in 1..Len(rankOut) :
    LET items == rankOut[n]
    IN /\ \A j \in 1..Len(rankIn), k \in 1..Len(rankIn) :
            Score(rankIn[j]) > Score(rankIn[k]) =>
              StringLess(items[j].sortText, items[k].sortText)
       /\ \A k \in 1..Len(rankIn) :
            items[k].label = rankIn[k].text /\ items[k].index = k - 1
       /\ items = rankOut[1]

\* n indent units in a row
RECURSIVE Units(_, _)
Units(unit, n) == IF n = 0 THEN <<>> ELSE unit \o Units(unit, n - 1)

\* the whitespace the line starts with is exactly n indent units
IndentedBy(line, unit, n) ==
  SubSeq(line, 1, LeadingSpace(line)) = Units(unit, n)

\* the lines after the first
LaterLines(text) == Tail(Split(text))

\* C20 as stated: if every line after the first is indented with a whole
\* number (1, 2, ...) of the resolved indent units, formatSuggestionText
\* returns the text unchanged.
C20_WholeUnitsUnchanged ==
  (fmtOut # <<>> /\ fmtIn.config # <<>>) =>
    LET unit == IndentChar(fmtIn.config[1])
        later == LaterLines(fmtIn.text)
    IN (\A k \in 1..Len(later) : \E n \in 1..MaxTextLen : IndentedBy(later[k], unit, n))
         => fmtOut[1] = fmtIn.text

\* C20: if the whitespace every line after the first starts with is exactly
\* one resolved indent unit, formatSuggestionText returns the text unchanged;
\* if some line after the first starts with two or more units it does not.
C20_OneUnitUnchanged ==
  (fmtOut # <<>> /\ fmtIn.config # <<>>) =>
    LET unit == IndentChar(fmtIn.config[1])
        later == LaterLines(fmtIn.text)
    IN /\ (\A k \in 1..Len(later) : IndentedBy(later[k], unit, 1))
            => fmtOut[1] = fmtIn.text
       /\ (\E k \in 1..Len(later) : \E n \in 2..MaxTextLen : IndentedBy(later[k], unit, n))
            => fmtOut[1] # fmtIn.text

\* a text of three lines, the later two indented by one tab each, came back
\* unchanged under the config of go
C20_Witness ==
  /\ fmtOut # <<>>
  /\ fmtIn.config = <<DefaultConfigs.go>>
  /\ fmtIn.text = <<"x", "\n", "\t", "\n", "\t">>
  /\ fmtOut[1] = fmtIn.text

\* C21: the number of completion items an invocation returns does not exceed
\* the maxSuggestions value resolved for the language of the document at that
\* time, whether the items come from a dispatch or from the cache.
C21_ItemsWithinMaxSuggestions ==
  [][ Returns =>
        \A k \in 1..Len(ret'.items) :
          Len(ret'.items) <= getMaxSuggestions(configuration', ret'.items[k].language)[2]
    ]_vars

\* the language has an object in the languages table whose maxSuggestions is
\* a number
NumericOverride(language) ==
  /\ language \in DOMAIN configuration.languages
  /\ configuration.languages[language] # <<>>
  /\ "maxSuggestions" \in DOMAIN configuration.languages[language][1]
  /\ configuration.languages[language][1]["maxSuggestions"][1] = "number"

C23_ContextUsesResolvedValues ==
  [][ \A r \in net' \ net :
        /\ r.context.indentStyle = getIndentStyle(configuration, r.context.language)[2]
        /\ r.context.indentSize = getIndentSize(configuration, r.context.language)[2]
        /\ r.context.contextWindow = getContextWindow(configuration, r.context.language)[2]
    ]_vars

\* the documented range of each numeric setting, temperature, topP and
\* repetitionPenalty in hundredths
DocumentedBounds ==
  [ maxSuggestions |-> <<1, 10>>, temperature |-> <<0, 200>>,
    maxContextLines |-> <<10, 200>>, topP |-> <<0, 100>>, topK |-> <<1, 100>>,
    repetitionPenalty |-> <<50, 200>>, contextWindow |-> <<256, 4096>>,
    indentSize |-> <<1, 8>> ]

\* a number outside the documented range of the field
OutsideBounds(v, field) ==
  /\ IsNumber(v)
  /\ v[2] < DocumentedBounds[field][1] \/ v[2] > DocumentedBounds[field][2]

Holds(errors, message) == \E i \in 1..Len(errors) : errors[i] = message

\* what the result of a validation has to report about a snapshot
ReportsAll(section, errors) ==
  /\ \A i \in 1..Len(GeneralChecks) :
       LET c == GeneralChecks[i]
       IN (c.key \in DOMAIN section.values
             /\ OutsideBounds(section.values[c.key], c.key))
            => Holds(errors, c.message)
  /\ ("model" \in DOMAIN section.values
        /\ section.values["model"][2] \notin {"codegpt", "codebert", "auto"})
       => Holds(errors, <<"Invalid general model selection. Must be one of: codegpt, codebert, auto">>)
  /\ \A l \in DOMAIN section.languages :
       \A i \in 1..Len(LanguageChecks) + 1 :
         LET c == IF i > Len(LanguageChecks) THEN IndentSizeCheck ELSE LanguageChecks[i]
             entry == getLanguageConfig(section, l)
         IN /\ (c.key \in DOMAIN entry /\ OutsideBounds(entry[c.key], c.key))
                 => Holds(errors, <<c.subject, l, c.range>>)
            /\ ("model" \in DOMAIN entry
                  /\ entry["model"][2] \notin {"codegpt", "codebert", "auto"})
                 => Holds(errors, <<"Invalid model selection for '", l,
                                    "'. Must be one of: codegpt, codebert, auto">>)

\* C24: validateConfiguration never throws; it returns {valid, errors} with
\* valid true exactly when errors is empty, and errors holds a message for
\* every general or per-language numeric setting outside its documented range
\* and for every unknown model (a temperature of 3.0 gives valid false and
\* the message with 'between 0.0 and 2.0')
C24_ValidationReportsAndNeverThrows ==
  valOut # <<>> =>
    /\ ~valOut[1].thrown
    /\ valOut[1].result[1].valid <=> (valOut[1].result[1].errors = <<>>)
    /\ ReportsAll(valIn, valOut[1].result[1].errors)

\* the entry of a language in the 'languages' value: <<>> when it has none
Override(languages, language) ==
  IF language \in DOMAIN languages THEN <<languages[language]>> ELSE <<>>

\* C25: a write of updateLanguageConfig(L, cfg) or removeLanguageConfig(L)
\* changes the override of L only: the global values and the override of
\* every other language are as before, the fields of L's override that cfg
\* does not name keep their value, and after a removal the getters called
\* with L give the global or built-in value
C25_WritesChangeOneLanguageOnly ==
  [][(pending # <<>> /\ pending' = Tail(pending)) =>
       LET call == Head(pending)
           before == EntryOf(settings.languages, call.language)
           after == EntryOf(settings'.languages, call.language)
       IN /\ settings'.values = settings.values
          /\ \A l \in (DOMAIN settings.languages \cup DOMAIN settings'.languages) \ {call.language} :
               Override(settings'.languages, l) = Override(settings.languages, l)
          /\ call.op = "update" =>
               \A field \in DOMAIN before \ DOMAIN call.config :
                 field \in DOMAIN after /\ after[field] = before[field]
          /\ call.op = "remove" =>
               /\ getMaxSuggestions(configuration', call.language)
                    = Get(configuration', "maxSuggestions", Num(3))
               /\ getContextWindow(configuration', call.language)
                    = Get(configuration', "contextWindow", Num(1024))
               /\ getIndentStyle(configuration', call.language)
                    = getIndentStyle(NoSettings, call.language)
               /\ getIndentSize(configuration', call.language)
                    = getIndentSize(NoSettings, call.language)]_vars

\* the last n elements of a sequence (all of them when it has fewer)
Last(seq, n) ==
  IF Len(seq) <= n THEN seq ELSE SubSeq(seq, Len(seq) - n + 1, Len(seq))

\* C26: after the recordCompletion calls made on a manager, the window holds
\* at most 100 response times, namely the most recent ones in arrival order,
\* and averageResponseTime is the mean of the values in the window
C26_WindowHoldsLatestHundred ==
  arrived # <<>> =>
    /\ Len(responseTimes) <= 100
    /\ responseTimes = Last(arrived, 100)
    /\ averageResponseTime[2] = Len(responseTimes)
    /\ averageResponseTime[1] = Sum(responseTimes)

\* the window is full, its oldest value was slow and has been dropped for a
\* fast one
C26_Witness ==
  /\ Len(arrived) = 101
  /\ arrived[1] = 250
  /\ Len(responseTimes) = 100
  /\ averageResponseTime # Average(arrived)

Counters ==
  {"totalRequests", "totalSuggestions", "acceptedSuggestions", "cacheHits", "errorCount"}

\* the counters outside the set are as before
OnlyRaised(raised) == \A c \in Counters \ raised : stats'[c] = stats[c]

\* C27: over recordCompletion, recordAcceptance, recordCacheHit, recordError,
\* the periodic save and a shutdown save followed by a reload, no counter ever
\* decreases, and a step raises only the counters of one record operation:
\* requests, suggestions and cache hits for a completion, and one of
\* acceptedSuggestions, cacheHits or errorCount by one otherwise
C27_CountersOnlyGrow ==
  [][/\ \A c \in Counters : stats'[c] >= stats[c]
     /\ IF Len(arrived') = Len(arrived) + 1
        THEN /\ stats'.totalRequests = stats.totalRequests + 1
             /\ stats'.cacheHits \in {stats.cacheHits, stats.cacheHits + 1}
             /\ OnlyRaised({"totalRequests", "totalSuggestions", "cacheHits"})
        ELSE \/ stats' = stats
             \/ \E c \in {"acceptedSuggestions", "cacheHits", "errorCount"} :
                  stats'[c] = stats[c] + 1 /\ OnlyRaised({c})]_vars

\* counters raised in one session have been saved and loaded by the next one
C27_Witness ==
  /\ globalState # <<>>
  /\ arrived = <<>>
  /\ stats = globalState[1].stats
  /\ stats.totalRequests = 1
  /\ stats.totalSuggestions = 2
  /\ stats.acceptedSuggestions = 1
  /\ stats.errorCount = 1

\* C28: for a cursor on line L, previousLines is the buffer lines
\* max(0, L - 50) .. L - 1 in buffer order, so at most 50 lines and none when
\* L = 0, and currentLine is the text of line L up to the cursor column
C28_PreviousLinesAreTheLastFifty ==
  extOut # <<>> =>
    LET L == extIn.position.line
        first == IF L - 50 > 0 THEN L - 50 ELSE 0
        previousLines == extOut[1].previousLines
        text == extIn.document[L + 1]
    IN /\ Len(previousLines) = L - first
       /\ Len(previousLines) <= 50
       /\ \A k \in 1..Len(previousLines) : previousLines[k] = extIn.document[first + k]
       /\ L = 0 => previousLines = <<>>
       /\ Len(extOut[1].currentLine) = extIn.position.character
       /\ \A k \in 1..extIn.position.character : extOut[1].currentLine[k] = text[k]

\* the cursor is further down than 50 lines and inside its line: the top of
\* the document is not among the previous lines
C28_Witness ==
  /\ extOut # <<>>
  /\ extIn.position.line = 52
  /\ extIn.position.character = 3
  /\ Len(extOut[1].previousLines) = 50
  /\ extIn.document[1] = DefF
  /\ extOut[1].previousLines[1] = Assign
  /\ Len(extIn.document[53]) > 3

\* the lines at or above the cursor that match a function-header pattern,
\* and those that match a class-header pattern
FunctionHeaders ==
  { k \in 0..extIn.position.line : FunctionMatch(extIn.document[k + 1]) # <<>> }

ClassHeaders ==
  { k \in 0..extIn.position.line : ClassMatch(extIn.document[k + 1]) # <<>> }

Highest(lines) == CHOOSE k \in lines : \A j \in lines : j <= k

\* C29: the enclosing-function (enclosing-class) descriptor is built from the
\* matching line with the highest line number not above the cursor line, and
\* it is null when no line at or above the cursor matches
C29_NearestHeaderWins ==
  extOut # <<>> =>
    /\ IF FunctionHeaders = {} THEN extOut[1].functionContext = <<>>
       ELSE extOut[1].functionContext
              = FunctionMatch(extIn.document[Highest(FunctionHeaders) + 1])
    /\ IF ClassHeaders = {} THEN extOut[1].classContext = <<>>
       ELSE /\ extOut[1].classContext # <<>>
            /\ extOut[1].classContext[1].name
                 = ClassMatch(extIn.document[Highest(ClassHeaders) + 1])[1]

\* two function headers above the cursor: the one nearer to it is reported
C29_Witness ==
  /\ extOut # <<>>
  /\ extIn.document = <<DefF, DefG, Assign>>
  /\ extIn.position.line = 2
  /\ extOut[1].functionContext[1].name = "g"

\* C30: the search for the enclosing function header reads a bounded window
\* of lines before the cursor: a header further above the cursor than the
\* line budget is not reported, and the number of lines read does not grow
\* with the cursor line
C30_FunctionSearchIsBounded ==
  extOut # <<>> =>
    /\ extOut[1].functionLine >= 0
         => extIn.position.line - extOut[1].functionLine <= maxContextLines
    /\ extOut[1].inspected <= maxContextLines + 1

\* the lines among the first 50 of the document that are import statements,
\* trimmed, in file order
RECURSIVE ImportStatements(_, _)
ImportStatements(document, k) ==
  IF k > Len(document) \/ k > 50 THEN <<>>
  ELSE (IF trim(document[k]) \in {ImportOs, FromOs} THEN <<trim(document[k])>> ELSE <<>>)
       \o ImportStatements(document, k + 1)

\* C31: extractImports returns exactly the import statements of the first 50
\* lines of the file, each statement once, in file order; an import line
\* after line 50 is not included
C31_ImportsOncePerStatement ==
  extOut # <<>> => extOut[1].imports = ImportStatements(extIn.document, 1)

\* a line without the white space it starts with
RECURSIVE StripLeft(_)
StripLeft(line) ==
  IF line # <<>> /\ Head(line) \in {" ", "\t", "\r"} THEN StripLeft(Tail(line)) ELSE line

\* C32: formatting a formatted text gives the same text; the first line of
\* the output is the first line of the input; a text without a newline, or a
\* call without a language config, comes back unchanged; and every line after
\* the first of the output is one indent unit (a tab for 'tabs', else
\* indentSize spaces) followed by the input line without its leading
\* white space
C32_FormatIsIdempotent ==
  /\ Len(fmtOut) = 2 => fmtOut[2] = fmtOut[1]
  /\ fmtOut # <<>> =>
       LET before == Split(fmtIn.text)
           after == Split(fmtOut[1])
       IN /\ after[1] = before[1]
          /\ Len(after) = Len(before)
          /\ (Len(before) = 1 \/ fmtIn.config = <<>>) => fmtOut[1] = fmtIn.text
          /\ fmtIn.config # <<>> =>
               \A k \in 2..Len(before) :
                 after[k] = (IF fmtIn.config[1].indentStyle = "tabs" THEN <<"\t">>
                             ELSE [n \in 1..fmtIn.config[1].indentSize |-> " "])
                            \o StripLeft(before[k])

\* a line indented by a tab and a space was re-indented to two spaces, and
\* the second formatting has been made
C32_Witness ==
  /\ Len(fmtOut) = 2
  /\ fmtIn.config = <<DefaultConfigs.javascript>>
  /\ fmtIn.text = <<"x", "\n", "\t", " ", "x">>
  /\ fmtOut[1] = <<"x", "\n", " ", " ", "x">>

\* C33: a cache entry is never overwritten: when an invocation inserts the
\* response of its dispatch, its key is not in the cache at that moment
\* (whatever clearCache calls and triggers came while it was pending), and a
\* key that stays in the cache over a step keeps its response
C33_EntriesNeverOverwritten ==
  [][ /\ \A i \in Invs :
           (pc[i] = "awaiting" /\ pc'[i] = "idle" /\ ret'.via \in {"dispatch", "exception"})
             => /\ ~CacheHas(cache, inv[i][1].contextHash)
                /\ cache'[Len(cache')] = [key |-> inv[i][1].contextHash, resp |-> ret'.resp[1]]
      /\ \A key \in CacheKeys(cache) \cap CacheKeys(cache') :
           CacheGet(cache', key) = CacheGet(cache, key) ]_vars

\* two keys were inserted by dispatches and one of them was served from the
\* cache afterwards
C33_Witness ==
  /\ Len(cache) = 2
  /\ stats.totalRequests = 2
  /\ \E key \in hits : CacheHas(cache, key)
  /\ Awaiting = {}

\* C34: after any sequence of pipeline invocations (cache hits, successful
\* dispatches, failures) from zero statistics, cacheHits <= totalRequests,
\* so getCacheHitRate() is at most 100
C34_HitRateAtMostHundred ==
  /\ stats.cacheHits <= stats.totalRequests
  /\ getCacheHitRate(stats)[1] <= 100 * getCacheHitRate(stats)[2]

\* C35: the accepted suggestions are the sum of the accepted counters of the
\* languages, an acceptance for a language without an entry included
C35_AcceptedIsSumOfLanguages ==
  stats.acceptedSuggestions = Total(languageStats, "accepted")

\* C36: the requests are the sum of the requests of the languages and the
\* sum of the requests of the days, and the suggestions are the sum of the
\* suggestions of the languages
C36_RequestsAreSums ==
  /\ stats.totalRequests = Total(languageStats, "requests")
  /\ stats.totalRequests = Total(dailyStats, "requests")
  /\ stats.totalSuggestions = Total(languageStats, "suggestions")

\* completions for both languages on both days, some with suggestions
C36_Witness ==
  /\ DOMAIN languageStats = TallyLanguages
  /\ DOMAIN dailyStats = {Dates[1], Dates[2]}
  /\ stats.totalRequests >= 3
  /\ stats.totalSuggestions > 0
  /\ C36_RequestsAreSums

\* C37: the object getStatistics returned holds what it held when it was
\* returned, whatever was recorded since
C37_SnapshotKeepsItsValue ==
  snapshot # <<>> => snapshot[1].object = snapshot[1].returned

\* C38: once the updates of two runs of the toggle command are written,
\* 'enabled' has the value it had before the first run, and every run has
\* announced the value it handed to setEnabled
C38_TwoTogglesRestore ==
  /\ \A i \in 1..Len(announced) : announced[i].message = ToggleMessage(announced[i].set)
  /\ (Len(announced) = 2 /\ enabledUpdates = <<>>)
       => enabledSetting = announced[1].stored

\* what the languages table shows of a call once it is written: an update
\* leaves an entry for its language with the fields of its config, a removal
\* leaves the language without an entry
Reflects(languages, call) ==
  IF call.op = "update"
  THEN /\ call.language \in DOMAIN languages
       /\ \A field \in DOMAIN call.config :
            /\ field \in DOMAIN EntryOf(languages, call.language)
            /\ EntryOf(languages, call.language)[field] = call.config[field]
  ELSE call.language \notin DOMAIN languages

\* C39: when two calls for different languages are both waiting for their
\* write, the table stored after both writes reflects both of them
C39_NoOverrideLost ==
  (Len(pending) = 2 /\ pending[1].language # pending[2].language) =>
    LET after == Written(Written(settings, pending[1]), pending[2]).languages
    IN Reflects(after, pending[1]) /\ Reflects(after, pending[2])

====
